---- MODULE Spec2Model ----
(***************************************************************************)
(* Model of the unit-test generator: the language adapters                 *)
(* (src/adapters), the generation fan-out of LanguageAdapter.generate_tests *)
(* (src/adapters/base.py) and PipelineExecutor.execute                      *)
(* (src/executors/pipeline_executor.py).                                    *)
(*                                                                         *)
(* Text is a sequence of tokens (strings).  A token stands for the         *)
(* characters it spells: "~~~" is one fence (three backquotes), "\n" one  *)
(* line break, " " one blank.  Python indices are 0-based and kept so (index 0 is the first    *)
(* snippet); TLA+ sequences are 1-based, so snippet index i is codes[i+1]. *)
(***************************************************************************)
EXTENDS Integers, Sequences, FiniteSets, TLC

\* ------------------------------------------------------------------ bounds
\* Longest input list given to PipelineExecutor.execute.
MaxN == 3
\* Threads of the default executor behind asyncio.to_thread
\* (min(32, cpu_count + 4) in CPython), scaled down with MaxN.
MaxWorkers == 2
\* Longest response text enumerated token by token.
MaxLen == 6
\* Most segments (blocks, words) concatenated into a response text.
MaxSegs == 2

\* Last instant of the clock read by init_project.
MaxClock == 3
\* Instants of that clock per second.
TicksPerSecond == 2
\* Most calls of init_project on one work_dir.
MaxCalls == 2

\* ------------------------------------------------------------------ tokens
\* The fence: three backquotes (written ~~~ here).
F == "~~~"
NL == "\n"
SP == " "

\* Tokens spelled with word characters only (\w in the regexes).
WordToks ==
  {"public", "class", "A", "B", "Main", "ATest", "BTest", "x", "y",
   "java", "JAVA", "python", "PYTHON", "cs", "CS", "csharp",
   "k1", "k2", "k3", "k4", "k5"}

\* Tokens spelled with whitespace only (\s in the regexes).
SpaceToks == {SP, NL}

\* str.lower() of a token, as re.IGNORECASE compares it.
Lower(t) ==
  CASE t = "JAVA" -> "java"
    [] t = "PYTHON" -> "python"
    [] t = "CS" -> "cs"
    [] t = "C#" -> "c#"
    [] OTHER -> t

\* Concatenation of the tokens of s into one string.
RECURSIVE Spell(_)
Spell(s) ==
  IF s = <<>> THEN "" ELSE Head(s) \o Spell(Tail(s))

\* Optional values: <<>> is None in Python, <<v>> a value.
Nothing == <<>>
Some(v) == <<v>>

\* ------------------------------------------------------ regular expressions
\* First position >= i of s that holds no token of set S (Len(s)+1 if none):
\* the end of a greedy S+ that started at i.
RECURSIVE SkipWhile(_, _, _)
SkipWhile(s, i, S) ==
  IF i <= Len(s) /\ s[i] \in S THEN SkipWhile(s, i + 1, S) ELSE i

\* re.match of public\s+class\s+(\w+) at position p: the captured name.
\* \s+ and \w+ are greedy; nothing follows \w+, so no backtracking changes
\* the capture.
ClassMatchAt(code, p) ==
  LET a == p + 1
      b == SkipWhile(code, a, SpaceToks)
      c == b + 1
      d == SkipWhile(code, c, SpaceToks)
      e == SkipWhile(code, d, WordToks)
  IN  IF /\ p <= Len(code) /\ code[p] = "public"
         /\ b > a
         /\ b <= Len(code) /\ code[b] = "class"
         /\ d > c
         /\ e > d
      THEN Some(Spell(SubSeq(code, d, e - 1)))
      ELSE Nothing

\* re.search(r"public\s+class\s+(\w+)", code): group(1) of the leftmost
\* match, scanning start positions from p.
RECURSIVE ClassSearchFrom(_, _)
ClassSearchFrom(code, p) ==
  IF p > Len(code) THEN Nothing
  ELSE IF ClassMatchAt(code, p) # Nothing THEN ClassMatchAt(code, p)
  ELSE ClassSearchFrom(code, p + 1)

ClassSearch(code) == ClassSearchFrom(code, 1)

\* Position of the first line break followed by a fence, at or after e
\* (0 if none): where the lazy (.*?) of a fence regex stops.
RECURSIVE CloseFrom(_, _)
CloseFrom(text, e) ==
  IF e + 1 > Len(text) THEN 0
  ELSE IF text[e] = NL /\ text[e + 1] = F THEN e
  ELSE CloseFrom(text, e + 1)

\* re.search(r"~~~(?:tag1|tag2..)\n(.*?)\n~~~", text, re.DOTALL [| re.IGNORECASE])
\* scanning start positions from s: group(1) of the leftmost match.
RECURSIVE TaggedSearchFrom(_, _, _, _)
TaggedSearchFrom(text, tags, ignorecase, s) ==
  IF s + 2 > Len(text) THEN Nothing
  ELSE IF /\ text[s] = F
          /\ (IF ignorecase THEN Lower(text[s + 1]) ELSE text[s + 1]) \in tags
          /\ text[s + 2] = NL
          /\ CloseFrom(text, s + 3) # 0
       THEN Some(SubSeq(text, s + 3, CloseFrom(text, s + 3) - 1))
       ELSE TaggedSearchFrom(text, tags, ignorecase, s + 1)

TaggedSearch(text, tags, ignorecase) == TaggedSearchFrom(text, tags, ignorecase, 1)

\* re.search(r"~~~\n(.*?)\n~~~", text, re.DOTALL) from s: group(1).
RECURSIVE GenericSearchFrom(_, _)
GenericSearchFrom(text, s) ==
  IF s + 1 > Len(text) THEN Nothing
  ELSE IF /\ text[s] = F
          /\ text[s + 1] = NL
          /\ CloseFrom(text, s + 2) # 0
       THEN Some(SubSeq(text, s + 2, CloseFrom(text, s + 2) - 1))
       ELSE GenericSearchFrom(text, s + 1)

GenericSearch(text) == GenericSearchFrom(text, 1)

\* ------------------------------------------------------------ the adapters
\* The response of llm.send_message as _generate_single_test reads it:
\*   str         a string                       (text: the string)
\*   empty_list  []                             (text unused)
\*   text_block  a list whose first element has a str .text   (text: it)
\*   no_text     a list whose first element has no .text attribute
\*   none_text   a list whose first element has .text = None
\*   object      any other object               (text: its str())
Shapes == {"str", "empty_list", "text_block", "no_text", "none_text", "object"}

\* An outcome of a call: raised is "" when it returned val.
Returned(v) == [raised |-> "", val |-> v]
Raised(e) == [raised |-> e, val |-> <<>>]

\* java_adapter.py 45-49 (the same lines in the other adapters):
\* text_content, or the exception the attribute access raises.
TextContent(response) ==
  CASE response.shape = "text_block" -> Returned(response.text)
    [] response.shape = "no_text" -> Raised("AttributeError")
    [] response.shape = "none_text" -> Returned(<<"None">>)
    [] response.shape = "empty_list" -> Returned(<<"[]">>)
    [] OTHER -> Returned(response.text)

JavaTags == {"java"}
CsTags == {"csharp", "cs", "c#"}
PyTags == {"python"}

\* An extraction without the untagged tier.
JavaExtractNoGeneric(text) ==
  LET code_match == TaggedSearch(text, JavaTags, TRUE)
  IN  IF code_match # Nothing THEN code_match[1] ELSE text

\* JavaAdapter._generate_single_test, the extraction (lines 51-65).
JavaExtract(text) ==
  LET code_match == TaggedSearch(text, JavaTags, TRUE)
      generic_match == GenericSearch(text)
  IN  IF code_match # Nothing THEN code_match[1]
      ELSE IF generic_match # Nothing THEN generic_match[1]
      ELSE text

\* JavaAdapter._generate_single_test once send_message has returned response.
\* re.search on a text_content that is None raises TypeError.
JavaGenerateSingleTest(response) ==
  LET tc == TextContent(response)
  IN  IF tc.raised # "" THEN tc
      ELSE IF response.shape = "none_text" THEN Raised("TypeError")
      ELSE Returned(JavaExtract(tc.val))

\* CsAdapter._generate_single_test, the extraction (lines 145-157).
CsExtract(text) ==
  LET code_match == TaggedSearch(text, CsTags, TRUE)
      generic_match == GenericSearch(text)
  IN  IF code_match # Nothing THEN code_match[1]
      ELSE IF generic_match # Nothing THEN generic_match[1]
      ELSE text

\* PythonAdapter._generate_single_test, the extraction (lines 83-88): one
\* regex, without re.IGNORECASE.
PythonExtract(text) ==
  LET code_match == TaggedSearch(text, PyTags, FALSE)
  IN  IF code_match # Nothing THEN code_match[1] ELSE text

\* The import statement the Python adapter rewrites, as one token.
FromMainImport == "from main import"

\* test_code.replace("from main import", f"from app.{module_name} import")
PythonReplace(test_code, module_name) ==
  [i \in 1 .. Len(test_code) |->
     IF test_code[i] = FromMainImport
     THEN "from app." \o module_name \o " import"
     ELSE test_code[i]]

\* The test code CsAdapter._generate_single_test writes to its test file,
\* once send_message has returned response (lines 138-157).
CsGenerateSingleTest(response) ==
  LET tc == TextContent(response)
  IN  IF tc.raised # "" THEN tc
      ELSE IF response.shape = "none_text" THEN Raised("TypeError")
      ELSE Returned(CsExtract(tc.val))

\* The test code PythonAdapter._generate_single_test writes to its test
\* file, once send_message has returned response (lines 74-93).
PythonGenerateSingleTest(response, module_name) ==
  LET tc == TextContent(response)
  IN  IF tc.raised # "" THEN tc
      ELSE IF response.shape = "none_text" THEN Raised("TypeError")
      ELSE Returned(PythonReplace(PythonExtract(tc.val), module_name))

\* JavaAdapter.prepare_app_code(code, index): (prepared code, filename).
JavaPrepareAppCode(code, index) ==
  LET class_match == ClassSearch(code)
  IN  [content |-> code,
       filename |-> IF class_match # Nothing THEN class_match[1] \o ".java"
                    ELSE IF index > 0 THEN "Module" \o ToString(index) \o ".java"
                    ELSE "Main.java"]

\* A prepare_test_code that names the file by the index alone.
JavaPrepareTestCodeByIndex(test_code, index) ==
  [content |-> test_code,
   filename |-> IF index > 0 THEN "Module" \o ToString(index) \o "Test.java"
                ELSE "MainTest.java"]

\* JavaAdapter.prepare_test_code(test_code, index): (code, filename).
JavaPrepareTestCode(test_code, index) ==
  LET class_match == ClassSearch(test_code)
  IN  [content |-> test_code,
       filename |-> IF class_match # Nothing THEN class_match[1] \o ".java"
                    ELSE IF index > 0 THEN "Module" \o ToString(index) \o "Test.java"
                    ELSE "MainTest.java"]

\* "\n".join(outputs)
RECURSIVE JoinLines(_)
JoinLines(outputs) ==
  IF outputs = <<>> THEN <<>>
  ELSE IF Len(outputs) = 1 THEN outputs[1]
  ELSE outputs[1] \o <<NL>> \o JoinLines(Tail(outputs))

\* What a report builder did: the children of the test_report element it
\* built, in document order; whether it wrote test_report.xml itself; and
\* what it returned ("xml": the serialised element, "path": the file's path).
Built(elements, wrote_file, returns) ==
  Returned([elements |-> elements, wrote_file |-> wrote_file, returns |-> returns])

\* LanguageAdapter.generate_report (base.py), for a subclass whose language
\* attribute is lang.
BaseGenerateReport(project_path, lang, test_results_, now) ==
  IF project_path = "" THEN Raised("RuntimeError")
  ELSE Built(<< <<"timestamp", now>>,
                <<"project_path", project_path>>,
                <<"language", lang>>,
                <<"return_code", ToString(test_results_.return_code)>>,
                <<"output", test_results_.stdout>>,
                <<"status", IF test_results_.return_code = 0 THEN "passed" ELSE "failed">> >>,
             FALSE, "xml")

\* A builder that takes a signal-killed toolchain (negative code) for a pass.
JavaGenerateReportSigned(project_path, test_results_, now) ==
  IF project_path = "" THEN Raised("RuntimeError")
  ELSE Built(<< <<"timestamp", now>>,
                <<"project_path", project_path>>,
                <<"language", "java">>,
                <<"return_code", ToString(test_results_.return_code)>>,
                <<"output", test_results_.stdout>>,
                <<"status", IF test_results_.return_code <= 0 THEN "passed" ELSE "failed">> >>,
             FALSE, "xml")

\* JavaAdapter.generate_report.
JavaGenerateReport(project_path, test_results_, now) ==
  IF project_path = "" THEN Raised("RuntimeError")
  ELSE Built(<< <<"timestamp", now>>,
                <<"project_path", project_path>>,
                <<"language", "java">>,
                <<"return_code", ToString(test_results_.return_code)>>,
                <<"output", test_results_.stdout>>,
                <<"status", IF test_results_.return_code = 0 THEN "passed" ELSE "failed">> >>,
             FALSE, "xml")

\* PythonAdapter.generate_report: no language element; it writes the file
\* itself and returns its path.  With project_path None the path
\* arithmetic of line 143 raises TypeError.
PythonGenerateReport(project_path, test_results_, now) ==
  IF project_path = "" THEN Raised("TypeError")
  ELSE Built(<< <<"timestamp", now>>,
                <<"project_path", project_path>>,
                <<"return_code", ToString(test_results_.return_code)>>,
                <<"output", test_results_.stdout>>,
                <<"status", IF test_results_.return_code = 0 THEN "passed" ELSE "failed">> >>,
             TRUE, "path")

\* CsAdapter.generate_report: writes the file itself and returns its path.
CsGenerateReport(project_path, test_results_, now) ==
  IF project_path = "" THEN Raised("TypeError")
  ELSE Built(<< <<"timestamp", now>>,
                <<"project_path", project_path>>,
                <<"language", "csharp">>,
                <<"return_code", ToString(test_results_.return_code)>>,
                <<"output", test_results_.stdout>>,
                <<"status", IF test_results_.return_code = 0 THEN "passed" ELSE "failed">> >>,
             TRUE, "path")

\* --------------------------------------------------------------- the state
VARIABLES
  language,     \* the adapter class in use: "java", "csharp" or "python"
  input_code,   \* the argument of execute: [kind |-> "str" | "list", codes |-> texts]
  probe,        \* one method call made on its own: [fn, arg, out]
  pc,           \* where PipelineExecutor.execute stands
  idx,          \* the index i of the running for loop (0-based)
  adapter,      \* the adapter's project_path, app_path, tests_path ("" = None)
                \* and llm (the engine's settings)
  paths,        \* execute's local paths: what init_project returned (line 18)
  dirs,         \* the directories that exist
  app_dir,      \* the files of app_path: a set of [name, content, index]
  tests_dir,    \* the files of tests_path: a set of [name, content, index]
  report_file,  \* test_report.xml under the project root: Nothing or Some(text)
  writes,       \* history: the source and test files written, in order:
                \* [dir |-> "src" | "tests", index, name, path]
  tasks,        \* per snippet, the state of its generation call
  results,      \* per snippet, what its _generate_single_test call returned
  calls,        \* per snippet, how many times send_message was called for it
  loop,         \* the event loop of asyncio.run in generate_tests
  done_order,   \* history: the snippets whose calls have ended, in order of
                \* completion (kept until the toolchain starts)
  test_codes,   \* what generate_tests returned to execute (a list of texts)
  procs,        \* the toolchain processes run so far, in order
                \* (see Process)
  pending,      \* execute_tests: the test classes still to run
  all_output,   \* execute_tests: the outputs of the test classes run
  test_results, \* what execute_tests returned: Nothing or Some([return_code, stdout])
  report_xml,   \* what generate_report returned: Nothing or Some(elements)
  error         \* the exception in flight ("" = none); pc = "raised" once it
                \* has reached the caller of execute

inputVars == <<language, input_code, probe>>
fileVars == <<dirs, app_dir, tests_dir, report_file, writes>>
genVars == <<tasks, results, calls, loop, done_order>>
execVars == <<procs, pending, all_output, test_results, report_xml>>
vars ==
  <<language, input_code, probe, pc, idx, adapter, paths, dirs, app_dir, tests_dir, report_file, writes,
    tasks, results, calls, loop, done_order, test_codes, procs, pending, all_output,
    test_results, report_xml, error>>

\* ------------------------------------------------------------------ inputs
\* The k-th snippet's mark: a token that only the response to the call made
\* for snippet k carries, so that a result can be traced to its call.
Mark(k) == <<"k1", "k2", "k3", "k4", "k5">>[k + 1]

\* The source snippets submitted.
Codes ==
  { <<"public", SP, "class", SP, "A">>,
    <<"class", SP, "B">> }

\* The responses send_message may give to the call made for snippet k.
PipelineResponses(k) ==
  { [shape |-> "text_block",
     text |-> <<F, "java", NL, "public", SP, "class", SP, "ATest", NL, Mark(k), NL, F>>],
    [shape |-> "text_block", text |-> <<"class", SP, Mark(k)>>],
    [shape |-> "no_text", text |-> <<>>] }

\* Exit codes of a toolchain process (negative: killed by a signal).
ReturnCodes == {0, 1, -9}
\* Combined stdout/stderr of a toolchain process.
Outputs == { <<>>, <<"o1">> }

NoName == ""
Now == "2026-11-03T10:15:00"
Stamp == "20261103_101500"
WorkDir == "storage"

Indices == 0 .. (Len(input_code.codes) - 1)
Code(i) == input_code.codes[i + 1]

\* open(dir / filename, "w").write(content): the file replaces one of that name.
WriteFile(dir, filename, content, index) ==
  {f \in dir : f.name # filename}
    \cup {[name |-> filename, content |-> content, index |-> index]}

RECURSIVE SeqsUpTo(_, _)
SeqsUpTo(S, n) ==
  IF n = 0 THEN {<<>>}
  ELSE LET shorter == SeqsUpTo(S, n - 1)
       IN  shorter \cup {Append(s, x) : s \in {t \in shorter : Len(t) = n - 1}, x \in S}

\* The engine an adapter is built with (self.llm): the settings
\* AnthropicEngine.__init__ stores; send_message reads them and assigns none.
Engine ==
  [model |-> "claude-sonnet-4-20250514", max_tokens |-> "1024",
   temperature |-> "0.1", system |-> ""]

\* execute's paths before init_project has returned.
NoPaths == [project_path |-> "", app_path |-> "", tests_path |-> ""]

\* The probe at rest.
NoProbe == [fn |-> "", arg |-> <<>>, out |-> Nothing]

\* The state execute(input_code) starts from, whatever the adapter.
InitRun ==
  /\ input_code \in
       {[kind |-> "str", codes |-> <<c>>] : c \in Codes}
         \cup {[kind |-> "list", codes |-> cs] : cs \in SeqsUpTo(Codes, MaxN)}
  /\ idx = 0
  /\ adapter = [project_path |-> "", app_path |-> "", tests_path |-> "", llm |-> Engine]
  /\ paths = NoPaths
  /\ dirs = {}
  /\ app_dir = {}
  /\ tests_dir = {}
  /\ report_file = Nothing
  /\ writes = <<>>
  /\ tasks = [i \in Indices |-> "none"]
  /\ results = [i \in Indices |-> Nothing]
  /\ calls = [i \in Indices |-> 0]
  /\ loop = "none"
  /\ done_order = <<>>
  /\ test_codes = <<>>
  /\ procs = <<>>
  /\ pending = {}
  /\ all_output = <<>>
  /\ test_results = Nothing
  /\ report_xml = Nothing
  /\ error = ""

\* A run of PipelineExecutor(adapter, work_dir).execute(input_code), the
\* adapter an object with the methods of JavaAdapter.
Init ==
  /\ language = "java"
  /\ probe = NoProbe
  /\ pc = "init_project"
  /\ InitRun

\* ------------------------------------------------- PipelineExecutor.execute
\* An init_project that makes the project root and leaves src and tests to
\* whoever writes into them first.
InitProjectRootOnly ==
  /\ pc = "init_project"
  /\ language = "java"
  /\ LET project_path == WorkDir \o "/java_project_" \o Stamp
     IN  /\ adapter' = [adapter EXCEPT !.project_path = project_path,
                                           !.app_path = project_path \o "/src",
                                           !.tests_path = project_path \o "/tests"]
         /\ paths' = [project_path |-> project_path,
                      app_path |-> project_path \o "/src",
                      tests_path |-> project_path \o "/tests"]
         /\ dirs' = dirs \cup {project_path}
  /\ idx' = 0
  /\ pc' = IF Len(input_code.codes) > 0 THEN "write_sources" ELSE "generate_tests"
  /\ UNCHANGED <<inputVars, app_dir, tests_dir, report_file, writes, genVars,
                 test_codes, execVars, error>>

\* JavaAdapter.init_project(work_dir), called at line 18.
InitProject ==
  /\ pc = "init_project"
  /\ language = "java"
  /\ LET project_path == WorkDir \o "/java_project_" \o Stamp
     IN  /\ adapter' = [adapter EXCEPT !.project_path = project_path,
                                           !.app_path = project_path \o "/src",
                                           !.tests_path = project_path \o "/tests"]
         /\ paths' = [project_path |-> project_path,
                      app_path |-> project_path \o "/src",
                      tests_path |-> project_path \o "/tests"]
         /\ dirs' = dirs \cup {project_path, project_path \o "/src",
                               project_path \o "/tests"}
  /\ idx' = 0
  /\ pc' = IF Len(input_code.codes) > 0 THEN "write_sources" ELSE "generate_tests"
  /\ UNCHANGED <<inputVars, app_dir, tests_dir, report_file, writes, genVars,
                 test_codes, execVars, error>>

\* init_project raises: mkdir of the project root fails (line 26) and
\* nothing is created; execute has no handler.
InitProjectRaise ==
  /\ pc = "init_project"
  /\ language = "java"
  /\ error' = "OSError"
  /\ pc' = "raised"
  /\ UNCHANGED <<inputVars, idx, adapter, paths, fileVars, genVars, test_codes, execVars>>

\* A loop that notes the failed write and goes on with the next snippet.
WriteSourceRaiseSkipped(created) ==
  /\ pc = "write_sources"
  /\ error' = "OSError"
  /\ idx' = idx + 1
  /\ pc' = IF idx + 1 < Len(input_code.codes) THEN "write_sources" ELSE "generate_tests"
  /\ UNCHANGED <<inputVars, adapter, paths, fileVars, genVars, test_codes, execVars>>

\* The write of a source file fails: open(app_path / filename, "w") raises
\* (line 26) and no file is made, or f.write raises (line 27) and the file
\* made by open is left empty (created).  The with statement closes the file
\* and the error leaves execute, which has no handler.
WriteSourceRaise(created) ==
  /\ pc = "write_sources"
  /\ error' = "OSError"
  /\ pc' = "raised"
  /\ app_dir' = IF created
                THEN WriteFile(app_dir, JavaPrepareAppCode(Code(idx), idx).filename, <<>>, idx)
                ELSE app_dir
  /\ UNCHANGED <<inputVars, idx, adapter, paths, dirs, tests_dir, report_file, writes,
                 genVars, test_codes, execVars>>

\* A loop that lets generation start as soon as one source is on disk.
WriteSourceOverlapped ==
  /\ pc = "write_sources"
  /\ LET prepared == JavaPrepareAppCode(Code(idx), idx)
     IN  /\ app_dir' = WriteFile(app_dir, prepared.filename, prepared.content, idx)
         /\ writes' = Append(writes, [dir |-> "src", index |-> idx,
                                      name |-> prepared.filename,
                                      path |-> paths.app_path \o "/" \o prepared.filename])
  /\ idx' = idx + 1
  /\ pc' = "generate_tests"
  /\ UNCHANGED <<inputVars, adapter, paths, dirs, tests_dir, report_file, genVars,
                 test_codes, execVars, error>>

\* One iteration of the loop of lines 24-27.
WriteSource ==
  /\ pc = "write_sources"
  /\ LET prepared == JavaPrepareAppCode(Code(idx), idx)
     IN  /\ app_dir' = WriteFile(app_dir, prepared.filename, prepared.content, idx)
         /\ writes' = Append(writes, [dir |-> "src", index |-> idx,
                                      name |-> prepared.filename,
                                      path |-> paths.app_path \o "/" \o prepared.filename])
  /\ idx' = idx + 1
  /\ pc' = IF idx + 1 < Len(input_code.codes) THEN "write_sources" ELSE "generate_tests"
  /\ UNCHANGED <<inputVars, adapter, paths, dirs, tests_dir, report_file, genVars,
                 test_codes, execVars, error>>

\* --------------------------------------- LanguageAdapter.generate_tests
Running == {k \in Indices : tasks[k] = "running"}

\* A generate_tests that sends a single snippet through the event loop too.
GenerateTestsSingleLooped ==
  /\ pc = "generate_tests"
  /\ input_code.kind = "str"
  /\ tasks' = [k \in Indices |-> "created"]
  /\ loop' = "submitting"
  /\ pc' = "gather"
  /\ UNCHANGED done_order
  /\ UNCHANGED <<inputVars, idx, adapter, paths, fileVars, results, calls, test_codes,
                 execVars, error>>

\* generate_tests with a str: _generate_single_test runs on the calling
\* thread (base.py line 72) and calls send_message (java_adapter.py line 43).
GenerateTestsSingle ==
  /\ pc = "generate_tests"
  /\ input_code.kind = "str"
  /\ tasks' = [tasks EXCEPT ![0] = "running"]
  /\ calls' = [calls EXCEPT ![0] = @ + 1]
  /\ pc' = "single_test"
  /\ UNCHANGED done_order
  /\ UNCHANGED <<inputVars, idx, adapter, paths, fileVars, results, loop, test_codes,
                 execVars, error>>

\* generate_tests with a list: asyncio.run starts an event loop on
\* _process_test_generation_batch, which builds one to_thread coroutine per
\* snippet and gathers them (base.py lines 51-54, 64).
GenerateTestsBatch ==
  /\ pc = "generate_tests"
  /\ input_code.kind = "list"
  /\ tasks' = [k \in Indices |-> "created"]
  /\ loop' = IF Indices = {} THEN "waiting" ELSE "submitting"
  /\ pc' = "gather"
  /\ UNCHANGED done_order
  /\ UNCHANGED <<inputVars, idx, adapter, paths, fileVars, results, calls, test_codes,
                 execVars, error>>

\* A batch that awaits each call before it hands over the next one.
SubmitOneAtATime ==
  /\ loop = "submitting"
  /\ \A h \in Indices : tasks[h] \notin {"queued", "running"}
  /\ LET k == CHOOSE j \in Indices :
                /\ tasks[j] = "created"
                /\ \A h \in Indices : h < j => tasks[h] # "created"
     IN  /\ tasks' = [tasks EXCEPT ![k] = "queued"]
         /\ loop' = IF k = Len(input_code.codes) - 1 THEN "waiting" ELSE "submitting"
  /\ UNCHANGED done_order
  /\ UNCHANGED <<inputVars, pc, idx, adapter, paths, fileVars, results, calls,
                 test_codes, execVars, error>>

\* The first step of the next gathered task, in list order: to_thread hands
\* _generate_single_test to the default executor.  The loop runs these steps
\* back to back, before it looks at any completion.
Submit ==
  /\ loop = "submitting"
  /\ LET k == CHOOSE j \in Indices :
                /\ tasks[j] = "created"
                /\ \A h \in Indices : h < j => tasks[h] # "created"
     IN  /\ tasks' = [tasks EXCEPT ![k] = "queued"]
         /\ loop' = IF k = Len(input_code.codes) - 1 THEN "waiting" ELSE "submitting"
  /\ UNCHANGED done_order
  /\ UNCHANGED <<inputVars, pc, idx, adapter, paths, fileVars, results, calls,
                 test_codes, execVars, error>>

\* A worker that runs a failed call again.
StartCallRetry(k) ==
  /\ tasks[k] \in {"queued", "failed"}
  /\ Cardinality(Running) < MaxWorkers
  /\ tasks' = [tasks EXCEPT ![k] = "running"]
  /\ calls' = [calls EXCEPT ![k] = @ + 1]
  /\ UNCHANGED done_order
  /\ UNCHANGED <<inputVars, pc, idx, adapter, paths, fileVars, results, loop,
                 test_codes, execVars, error>>

\* A free worker thread takes the oldest queued call and runs
\* _generate_single_test, which calls send_message (java_adapter.py line 43).
StartCall(k) ==
  /\ tasks[k] = "queued"
  /\ \A h \in Indices : h < k => tasks[h] # "queued"
  /\ Cardinality(Running) < MaxWorkers
  /\ tasks' = [tasks EXCEPT ![k] = "running"]
  /\ calls' = [calls EXCEPT ![k] = @ + 1]
  /\ UNCHANGED done_order
  /\ UNCHANGED <<inputVars, pc, idx, adapter, paths, fileVars, results, loop,
                 test_codes, execVars, error>>

\* A _generate_single_test that keeps the text it extracted in a field of
\* the adapter before returning it: the calls running at that moment all see
\* the text of the call that wrote last.
RespondShared(k, r) ==
  /\ tasks[k] = "running"
  /\ LET out == JavaGenerateSingleTest(r)
     IN  /\ results' = [j \in Indices |->
                          IF j = k \/ tasks[j] = "running" THEN Some(out) ELSE results[j]]
         /\ tasks' = [tasks EXCEPT ![k] = IF out.raised = "" THEN "done" ELSE "failed"]
  /\ done_order' = Append(done_order, k)
  /\ UNCHANGED <<inputVars, pc, idx, adapter, paths, fileVars, calls, loop,
                 test_codes, execVars, error>>

\* send_message returns response r to the call for snippet k; the rest of
\* _generate_single_test (java_adapter.py lines 45-65) returns or raises.
Respond(k, r) ==
  /\ tasks[k] = "running"
  /\ LET out == JavaGenerateSingleTest(r)
     IN  /\ results' = [results EXCEPT ![k] = Some(out)]
         /\ tasks' = [tasks EXCEPT ![k] = IF out.raised = "" THEN "done" ELSE "failed"]
  /\ done_order' = Append(done_order, k)
  /\ UNCHANGED <<inputVars, pc, idx, adapter, paths, fileVars, calls, loop,
                 test_codes, execVars, error>>

\* send_message raises in the call for snippet k.
ServiceError(k) ==
  /\ tasks[k] = "running"
  /\ results' = [results EXCEPT ![k] = Some(Raised("ServiceError"))]
  /\ tasks' = [tasks EXCEPT ![k] = "failed"]
  /\ done_order' = Append(done_order, k)
  /\ UNCHANGED <<inputVars, pc, idx, adapter, paths, fileVars, calls, loop,
                 test_codes, execVars, error>>

\* The str case returns the text to execute (base.py line 72).
SingleReturn ==
  /\ pc = "single_test"
  /\ tasks[0] = "done"
  /\ test_codes' = <<results[0][1].val>>
  /\ idx' = 0
  /\ pc' = "write_tests"
  /\ UNCHANGED <<inputVars, adapter, paths, fileVars, genVars, execVars, error>>

\* An execute that catches the generation error and goes on without tests.
SingleRaiseCaught ==
  /\ pc = "single_test"
  /\ tasks[0] = "failed"
  /\ error' = results[0][1].raised
  /\ pc' = "execute_tests"
  /\ UNCHANGED <<inputVars, idx, adapter, paths, fileVars, genVars, test_codes, execVars>>

\* The str case raises to execute, which has no handler.
SingleRaise ==
  /\ pc = "single_test"
  /\ tasks[0] = "failed"
  /\ error' = results[0][1].raised
  /\ pc' = "raised"
  /\ UNCHANGED <<inputVars, idx, adapter, paths, fileVars, genVars, test_codes, execVars>>

\* A gather that hands the results back in the order of completion.
GatherAsCompleted(res) ==
  [i \in 1 .. Len(input_code.codes) |-> res[done_order[i]][1].val]

\* asyncio.gather(*tasks): the results in the order of the awaitables given,
\* whatever the order of completion.
Gather(res) == [i \in 1 .. Len(input_code.codes) |-> res[i - 1][1].val]

\* Every gathered task is done: gather's future gets the result list,
\* asyncio.run closes the loop and generate_tests returns the list.
GatherReturn ==
  /\ pc = "gather"
  /\ loop = "waiting"
  /\ \A k \in Indices : tasks[k] = "done"
  /\ test_codes' = Gather(results)
  /\ loop' = "closed"
  /\ idx' = 0
  /\ pc' = IF Indices = {} THEN "execute_tests" ELSE "write_tests"
  /\ UNCHANGED done_order
  /\ UNCHANGED <<inputVars, adapter, paths, fileVars, tasks, results, calls, execVars, error>>

\* The results of the calls that succeeded, in index order.
RECURSIVE Succeeded(_, _)
Succeeded(res, i) ==
  IF i >= Len(input_code.codes) THEN <<>>
  ELSE IF res[i] # Nothing /\ res[i][1].raised = ""
       THEN <<res[i][1].val>> \o Succeeded(res, i + 1)
       ELSE Succeeded(res, i + 1)

\* A gather that drops the failed calls and returns the rest.
GatherSkipFailed(k) ==
  /\ pc = "gather"
  /\ loop = "waiting"
  /\ tasks[k] = "failed"
  /\ \A j \in Indices : tasks[j] \in {"done", "failed"}
  /\ test_codes' = Succeeded(results, 0)
  /\ loop' = "closed"
  /\ idx' = 0
  /\ pc' = IF Succeeded(results, 0) = <<>> THEN "execute_tests" ELSE "write_tests"
  /\ UNCHANGED <<inputVars, adapter, paths, fileVars, tasks, results, calls, done_order,
                 execVars, error>>

\* The loop sees a failed task: gather (return_exceptions=False) passes the
\* exception on at once; asyncio.run then cancels the tasks left, and a call
\* still queued behind the executor's threads is dropped before it starts.
GatherRaise(k) ==
  /\ pc = "gather"
  /\ loop = "waiting"
  /\ tasks[k] = "failed"
  /\ error' = results[k][1].raised
  /\ tasks' = [j \in Indices |-> IF tasks[j] = "queued" THEN "cancelled" ELSE tasks[j]]
  /\ loop' = "cleanup"
  /\ UNCHANGED done_order
  /\ UNCHANGED <<inputVars, pc, idx, adapter, paths, fileVars, results, calls,
                 test_codes, execVars>>

\* A shutdown that waits for the call of every snippet, the cancelled ones
\* included.
CleanupJoinsAll ==
  /\ pc = "gather"
  /\ loop = "cleanup"
  /\ \A k \in Indices : tasks[k] \in {"done", "failed"}
  /\ loop' = "closed"
  /\ pc' = "raised"
  /\ UNCHANGED done_order
  /\ UNCHANGED <<inputVars, idx, adapter, paths, fileVars, tasks, results, calls,
                 test_codes, execVars, error>>

\* asyncio.run ends with shutdown_default_executor, which joins the running
\* threads; then the exception leaves generate_tests and execute.
CleanupDone ==
  /\ pc = "gather"
  /\ loop = "cleanup"
  /\ Running = {}
  /\ loop' = "closed"
  /\ pc' = "raised"
  /\ UNCHANGED done_order
  /\ UNCHANGED <<inputVars, idx, adapter, paths, fileVars, tasks, results, calls,
                 test_codes, execVars, error>>

\* open(test_file_path, "w") raises (line 37): the file is not written and
\* the error leaves execute.
WriteTestRaise ==
  /\ pc = "write_tests"
  /\ error' = "OSError"
  /\ pc' = "raised"
  /\ UNCHANGED <<inputVars, idx, adapter, paths, fileVars, genVars, test_codes, execVars>>

\* A loop that starts the toolchain once the first test file is on disk.
WriteTestThenRun ==
  /\ pc = "write_tests"
  /\ LET prepared == JavaPrepareTestCode(test_codes[idx + 1], idx)
     IN  /\ tests_dir' = WriteFile(tests_dir, prepared.filename, prepared.content, idx)
         /\ writes' = Append(writes, [dir |-> "tests", index |-> idx,
                                      name |-> prepared.filename,
                                      path |-> paths.tests_path \o "/" \o prepared.filename])
  /\ idx' = idx + 1
  /\ pc' = "execute_tests"
  /\ UNCHANGED <<inputVars, adapter, paths, dirs, app_dir, report_file, genVars,
                 test_codes, execVars, error>>

\* One iteration of the loop of lines 34-39.
WriteTest ==
  /\ pc = "write_tests"
  /\ LET prepared == JavaPrepareTestCode(test_codes[idx + 1], idx)
     IN  /\ tests_dir' = WriteFile(tests_dir, prepared.filename, prepared.content, idx)
         /\ writes' = Append(writes, [dir |-> "tests", index |-> idx,
                                      name |-> prepared.filename,
                                      path |-> paths.tests_path \o "/" \o prepared.filename])
  /\ idx' = idx + 1
  /\ pc' = IF idx + 1 < Len(test_codes) THEN "write_tests" ELSE "execute_tests"
  /\ UNCHANGED <<inputVars, adapter, paths, dirs, app_dir, report_file, genVars,
                 test_codes, execVars, error>>

\* ------------------------------------------------ JavaAdapter.execute_tests
\* What is kept of a process subprocess.run has run in directory cwd: its
\* command, its argument, its exit code and, if it exited non-zero, its
\* output (stdout and stderr combined).
Process(cmd, arg, rc, out, cwd) ==
  [cmd |-> cmd, arg |-> arg, rc |-> rc, cwd |-> cwd,
   out |-> IF rc # 0 THEN out ELSE <<>>]

JavaFiles(dir) == {f.name : f \in dir}

\* execute leaves execute_tests with its result (line 42).
ReturnResults(return_code, stdout) ==
  /\ test_results' = Some([return_code |-> return_code, stdout |-> stdout])
  /\ pc' = "generate_report"

\* An execute_tests that sets up a project root of its own before it runs.
ExecuteTestsRelocated ==
  /\ pc = "execute_tests"
  /\ language = "java"
  /\ LET project_path == adapter.project_path \o "_run"
     IN  /\ adapter' = [adapter EXCEPT !.project_path = project_path,
                                           !.app_path = project_path \o "/src",
                                           !.tests_path = project_path \o "/tests"]
         /\ dirs' = dirs \cup {project_path, project_path \o "/src",
                               project_path \o "/tests", project_path \o "/bin"}
  /\ IF JavaFiles(app_dir) = {}
     THEN ReturnResults(1, <<"No source files found in src directory">>)
     ELSE /\ pc' = "javac_src"
          /\ UNCHANGED test_results
  /\ done_order' = <<>>
  /\ UNCHANGED <<inputVars, idx, paths, app_dir, tests_dir, report_file,
                 writes, tasks, results, calls, loop, test_codes, procs, pending,
                 all_output, report_xml, error>>

\* An execute_tests that hands the glob of the sources to javac without
\* looking whether it found any.
ExecuteTestsCompilesAnyway ==
  /\ pc = "execute_tests"
  /\ language = "java"
  /\ IF adapter.tests_path = "" \/ adapter.app_path = "" \/ adapter.project_path = ""
     THEN /\ error' = "RuntimeError"
          /\ pc' = "raised"
          /\ UNCHANGED dirs
     ELSE /\ dirs' = dirs \cup {adapter.project_path \o "/bin"}
          /\ error' = error
          /\ pc' = "javac_src"
  /\ done_order' = <<>>
  /\ UNCHANGED <<inputVars, idx, adapter, paths, app_dir, tests_dir, report_file,
                 writes, tasks, results, calls, loop, test_codes, procs, pending,
                 all_output, test_results, report_xml>>

\* Lines 99-112: the state check, bin/, the glob of the sources.
ExecuteTests ==
  /\ pc = "execute_tests"
  /\ language = "java"
  /\ IF adapter.tests_path = "" \/ adapter.app_path = "" \/ adapter.project_path = ""
     THEN /\ error' = "RuntimeError"
          /\ pc' = "raised"
          /\ UNCHANGED <<dirs, test_results>>
     ELSE /\ dirs' = dirs \cup {adapter.project_path \o "/bin"}
          /\ error' = error
          /\ IF JavaFiles(app_dir) = {}
             THEN ReturnResults(1, <<"No source files found in src directory">>)
             ELSE /\ pc' = "javac_src"
                  /\ UNCHANGED test_results
  /\ done_order' = <<>>
  /\ UNCHANGED <<inputVars, idx, adapter, paths, app_dir, tests_dir, report_file,
                 writes, tasks, results, calls, loop, test_codes, procs, pending,
                 all_output, report_xml>>

\* A javac run with check=True: a non-zero exit raises CalledProcessError.
CompileSourcesChecked(rc, out) ==
  /\ pc = "javac_src"
  /\ procs' = Append(procs, Process("javac_src", NoName, rc, out, adapter.project_path))
  /\ IF rc # 0
     THEN /\ error' = "CalledProcessError"
          /\ pc' = "raised"
          /\ UNCHANGED test_results
     ELSE /\ error' = error
          /\ IF JavaFiles(tests_dir) = {}
             THEN ReturnResults(0, <<"No tests found">>)
             ELSE /\ pc' = "javac_tests"
                  /\ UNCHANGED test_results
  /\ UNCHANGED <<inputVars, idx, adapter, paths, fileVars, genVars, test_codes,
                 pending, all_output, report_xml>>

\* Lines 117-134 and 193: javac over the sources, then the glob of the tests.
CompileSources(rc, out) ==
  /\ pc = "javac_src"
  /\ procs' = Append(procs, Process("javac_src", NoName, rc, out, adapter.project_path))
  /\ IF rc # 0
     THEN ReturnResults(rc, <<"Compilation failed:", NL>> \o out)
     ELSE IF JavaFiles(tests_dir) = {}
          THEN ReturnResults(0, <<"No tests found">>)
          ELSE /\ pc' = "javac_tests"
               /\ UNCHANGED test_results
  /\ UNCHANGED <<inputVars, idx, adapter, paths, fileVars, genVars, test_codes,
                 pending, all_output, report_xml, error>>

\* Lines 141-165: javac over the tests, then the list of test classes.
CompileTests(rc, out) ==
  /\ pc = "javac_tests"
  /\ procs' = Append(procs, Process("javac_tests", NoName, rc, out, adapter.project_path))
  /\ IF rc # 0
     THEN /\ ReturnResults(rc, <<"Test compilation failed:", NL>> \o out)
          /\ UNCHANGED <<pending, all_output>>
     ELSE /\ pending' = JavaFiles(tests_dir)
          /\ all_output' = <<>>
          /\ pc' = "run_tests"
          /\ UNCHANGED test_results
  /\ UNCHANGED <<inputVars, idx, adapter, paths, fileVars, genVars, test_codes,
                 report_xml, error>>

\* One iteration of the loop of lines 167-191 on test class f (the stem of
\* test file f; glob gives the files in no particular order).
RunTest(f, rc, out) ==
  /\ pc = "run_tests"
  /\ f \in pending
  /\ procs' = Append(procs, Process("java", f, rc, out, adapter.project_path))
  /\ all_output' = Append(all_output, out)
  /\ pending' = pending \ {f}
  /\ IF rc # 0
     THEN ReturnResults(rc, JoinLines(Append(all_output, out)))
     ELSE IF pending \ {f} = {}
          THEN ReturnResults(0, JoinLines(Append(all_output, out)))
          ELSE /\ pc' = "run_tests"
               /\ UNCHANGED test_results
  /\ UNCHANGED <<inputVars, idx, adapter, paths, fileVars, genVars, test_codes,
                 report_xml, error>>

\* subprocess.run raises instead of returning (javac or java cannot be
\* started): execute_tests has no handler and neither has execute.
ToolchainRaise ==
  /\ pc \in {"javac_src", "javac_tests", "run_tests"}
  /\ error' = "OSError"
  /\ pc' = "raised"
  /\ UNCHANGED <<inputVars, idx, adapter, paths, fileVars, genVars, test_codes, execVars>>

\* --------------------------- CsAdapter.execute_tests, PythonAdapter.execute_tests
\* self.logger, self.tests_path and self.app_path of PythonAdapter and
\* CsAdapter exist only once their init_project has set them, together with
\* project_path (python_adapter.py lines 45-57).
HasLogger == adapter.project_path # ""

\* The first statement of execute_tests of PythonAdapter and CsAdapter,
\* self.logger.info(...), on an instance whose init_project never ran: the
\* attribute is missing and the call raises before any process is started.
LoggerMissing ==
  /\ pc = "execute_tests"
  /\ language \in {"python", "csharp"}
  /\ ~HasLogger
  /\ error' = "AttributeError"
  /\ pc' = "raised"
  /\ UNCHANGED <<inputVars, idx, adapter, paths, fileVars, genVars, test_codes,
                 execVars>>

\* A restore whose failure does not stop the test run.
CsRestoreIgnored(rc, out) ==
  /\ pc = "execute_tests"
  /\ language = "csharp"
  /\ HasLogger
  /\ procs' = Append(procs, Process("dotnet_restore", NoName, rc, out, adapter.tests_path))
  /\ pc' = "dotnet_test"
  /\ UNCHANGED <<inputVars, idx, adapter, paths, fileVars, genVars, test_codes,
                 pending, all_output, test_results, report_xml, error>>

\* csharp_adapter.py lines 171-186: dotnet restore in the tests directory.
CsRestore(rc, out) ==
  /\ pc = "execute_tests"
  /\ language = "csharp"
  /\ HasLogger
  /\ procs' = Append(procs, Process("dotnet_restore", NoName, rc, out, adapter.tests_path))
  /\ IF rc # 0
     THEN ReturnResults(rc, out)
     ELSE /\ pc' = "dotnet_test"
          /\ UNCHANGED test_results
  /\ UNCHANGED <<inputVars, idx, adapter, paths, fileVars, genVars, test_codes,
                 pending, all_output, report_xml, error>>

\* csharp_adapter.py lines 188-202: dotnet test --no-restore.
CsTest(rc, out) ==
  /\ pc = "dotnet_test"
  /\ procs' = Append(procs, Process("dotnet_test", NoName, rc, out, adapter.tests_path))
  /\ ReturnResults(rc, out)
  /\ UNCHANGED <<inputVars, idx, adapter, paths, fileVars, genVars, test_codes,
                 pending, all_output, report_xml, error>>

\* python_adapter.py lines 103-127: one pytest run over the project root.
PythonPytest(rc, out) ==
  /\ pc = "execute_tests"
  /\ language = "python"
  /\ HasLogger
  /\ procs' = Append(procs, Process("pytest", NoName, rc, out, adapter.project_path))
  /\ ReturnResults(rc, out)
  /\ UNCHANGED <<inputVars, idx, adapter, paths, fileVars, genVars, test_codes,
                 pending, all_output, report_xml, error>>

\* --------------------------------------------------------------- the report
\* execute line 45: adapter.generate_report(test_results), the adapter a
\* JavaAdapter.
GenerateReport ==
  /\ pc = "generate_report"
  /\ language = "java"
  /\ LET out == JavaGenerateReport(adapter.project_path, test_results[1], Now)
     IN  IF out.raised # ""
         THEN /\ error' = out.raised
              /\ pc' = "raised"
              /\ UNCHANGED report_xml
         ELSE /\ report_xml' = Some(out.val.elements)
              /\ pc' = "write_report"
              /\ UNCHANGED error
  /\ UNCHANGED <<inputVars, idx, adapter, paths, fileVars, genVars, test_codes,
                 procs, pending, all_output, test_results>>

\* execute lines 48-52: the declaration line, then the report text.
WriteReport ==
  /\ pc = "write_report"
  /\ report_file' = Some(<< <<"?xml", "version=1.0 encoding=utf-8">> >> \o report_xml[1])
  /\ pc' = "done"
  /\ UNCHANGED <<inputVars, idx, adapter, paths, dirs, app_dir, tests_dir, writes,
                 genVars, test_codes, execVars, error>>

Next ==
  \/ InitProject
  \/ WriteSource
  \/ GenerateTestsSingle
  \/ GenerateTestsBatch
  \/ Submit
  \/ \E k \in Indices : StartCall(k)
  \/ \E k \in Indices : \E r \in PipelineResponses(k) : Respond(k, r)
  \/ \E k \in Indices : ServiceError(k)
  \/ SingleReturn
  \/ SingleRaise
  \/ GatherReturn
  \/ \E k \in Indices : GatherRaise(k)
  \/ CleanupDone
  \/ WriteTest
  \/ ExecuteTests
  \/ \E rc \in ReturnCodes, out \in Outputs : CompileSources(rc, out)
  \/ \E rc \in ReturnCodes, out \in Outputs : CompileTests(rc, out)
  \/ \E f \in pending, rc \in ReturnCodes, out \in Outputs : RunTest(f, rc, out)
  \/ GenerateReport
  \/ WriteReport
  \/ InitProjectRaise
  \/ \E created \in BOOLEAN : WriteSourceRaise(created)
  \/ WriteTestRaise
  \/ ToolchainRaise

Spec == Init /\ [][Next]_vars

\* The steps execute's own thread takes, the event loop's included (the loop
\* runs on that thread, inside asyncio.run): a thread that can run does.
ThreadStep ==
  \/ InitProject \/ InitProjectRaise
  \/ WriteSource \/ (\E created \in BOOLEAN : WriteSourceRaise(created))
  \/ GenerateTestsSingle \/ GenerateTestsBatch
  \/ Submit \/ GatherReturn \/ (\E k \in Indices : GatherRaise(k)) \/ CleanupDone
  \/ SingleReturn \/ SingleRaise
  \/ WriteTest \/ WriteTestRaise
  \/ ExecuteTests \/ GenerateReport \/ WriteReport

\* A free worker thread of the pool takes the oldest queued call.
WorkerStep == \E k \in Indices : StartCall(k)

\* A generation call in progress returns or fails.
CallEnds ==
  \E k \in Indices : ServiceError(k) \/ \E r \in PipelineResponses(k) : Respond(k, r)

\* A toolchain process exits, or cannot be started.
ProcessExits ==
  \/ \E rc \in ReturnCodes, out \in Outputs : CompileSources(rc, out)
  \/ \E rc \in ReturnCodes, out \in Outputs : CompileTests(rc, out)
  \/ \E f \in pending, rc \in ReturnCodes, out \in Outputs : RunTest(f, rc, out)
  \/ ToolchainRaise

\* A run of execute on a string or on a list of up to MaxN snippets; what
\* the snippets say has no part in whether a step can be taken, and they are
\* taken alike.
InitLive ==
  /\ Init
  /\ \A i \in 1 .. Len(input_code.codes) : input_code.codes[i] = <<"class", SP, "B">>

\* A run in which threads are scheduled, every generation call ends and
\* every toolchain process exits.
SpecLive ==
  /\ InitLive
  /\ [][Next]_vars
  /\ WF_vars(ThreadStep)
  /\ WF_vars(WorkerStep)
  /\ WF_vars(CallEnds)
  /\ WF_vars(ProcessExits)

\* ------------------------------------------- the contract and its adapters
\* The methods LanguageAdapter declares abstract (base.py lines 22-45).
AbstractMethods ==
  {"init_project", "execute_tests", "_generate_single_test",
   "prepare_source_code", "prepare_test_code"}

\* The methods LanguageAdapter defines itself, with the number of arguments
\* each takes after self.
InheritedMethods ==
  {[name |-> "generate_tests", arity |-> 1],
   [name |-> "generate_report", arity |-> 1]}

\* The methods each adapter class defines, with the number of arguments
\* each takes after self.
DefinedMethods(lang) ==
  CASE lang = "java" ->
         {[name |-> "init_project", arity |-> 1],
          [name |-> "_generate_single_test", arity |-> 1],
          [name |-> "prepare_app_code", arity |-> 2],
          [name |-> "prepare_test_code", arity |-> 2],
          [name |-> "execute_tests", arity |-> 0],
          [name |-> "generate_report", arity |-> 1]}
    [] OTHER ->
         {[name |-> "init_project", arity |-> 0],
          [name |-> "_generate_single_test", arity |-> 2],
          [name |-> "execute_tests", arity |-> 0],
          [name |-> "generate_report", arity |-> 1]}

\* The abstract methods an adapter class leaves without a definition.
StillAbstract(lang) ==
  AbstractMethods \ {m.name : m \in DefinedMethods(lang)}

\* The calls execute makes on its adapter (lines 18, 25, 30, 35, 42, 45).
ExecutorCalls ==
  {[name |-> "init_project", arity |-> 1],
   [name |-> "prepare_app_code", arity |-> 2],
   [name |-> "generate_tests", arity |-> 1],
   [name |-> "prepare_test_code", arity |-> 2],
   [name |-> "execute_tests", arity |-> 0],
   [name |-> "generate_report", arity |-> 1]}

\* The adapter to drive is built: probe.arg tells whether it is an instance
\* of the adapter class itself or of a subclass that defines every method
\* the class leaves abstract.  ABCMeta refuses to instantiate a class with
\* abstract methods left.
Construct ==
  /\ pc = "construct"
  /\ IF ~probe.arg /\ StillAbstract(language) # {}
     THEN /\ error' = "TypeError"
          /\ pc' = "raised"
     ELSE /\ error' = error
          /\ pc' = "init_project"
  /\ probe' = [probe EXCEPT !.out = Some(StillAbstract(language))]
  /\ UNCHANGED <<language, input_code, idx, adapter, paths, fileVars, genVars,
                 test_codes, execVars>>

\* execute line 18 on PythonAdapter or CsAdapter: init_project(self) is
\* given work_dir and the call raises TypeError before its body runs.
InitProjectArity ==
  /\ pc = "init_project"
  /\ [name |-> "init_project", arity |-> 1] \notin DefinedMethods(language)
  /\ error' = "TypeError"
  /\ pc' = "raised"
  /\ UNCHANGED <<inputVars, idx, adapter, paths, fileVars, genVars, test_codes, execVars>>

\* An adapter is built and handed to PipelineExecutor.execute.
InitDrive ==
  /\ language \in {"java", "csharp", "python"}
  /\ pc = "construct"
  /\ \E subclassed \in BOOLEAN :
       probe = [fn |-> "construct", arg |-> subclassed, out |-> Nothing]
  /\ InitRun

NextDrive ==
  \/ Construct
  \/ InitProjectArity
  \/ Next

SpecDrive == InitDrive /\ [][NextDrive]_vars

\* ------------------------------------------- execute_tests of each adapter
\* Everything but language, probe, pc, adapter and the directories, as
\* construction leaves it.
AtRest ==
  /\ input_code = [kind |-> "str", codes |-> << <<"class", SP, "B">> >>]
  /\ idx = 0
  /\ paths = NoPaths
  /\ dirs = {}
  /\ report_file = Nothing
  /\ writes = <<>>
  /\ tasks = <<>>
  /\ results = <<>>
  /\ calls = <<>>
  /\ loop = "none"
  /\ done_order = <<>>
  /\ test_codes = <<>>
  /\ procs = <<>>
  /\ pending = {}
  /\ all_output = <<>>
  /\ test_results = Nothing
  /\ report_xml = Nothing
  /\ error = ""

\* The file sets a Java project may hold when execute_tests is called.
SomeSources == { {}, {"Main.java"}, {"Main.java", "A.java"} }
SomeTests == { {}, {"MainTest.java"}, {"MainTest.java", "ATest.java"},
               {"MainTest.java", "ATest.java", "Module2Test.java"} }
FilesNamed(names) == {[name |-> n, content |-> <<>>, index |-> 0] : n \in names}

\* The adapter as __init__ leaves it, and as init_project leaves it.
Uninitialized ==
  [project_path |-> "", app_path |-> "", tests_path |-> "", llm |-> Engine]
Initialized ==
  [project_path |-> "storage/p", app_path |-> "storage/p/src",
   tests_path |-> "storage/p/tests", llm |-> Engine]

\* execute_tests called on an adapter: one whose init_project never ran, or
\* one whose init_project has run and whose directories hold some files.
InitToolchain ==
  /\ AtRest
  /\ probe = NoProbe
  /\ language \in {"java", "csharp", "python"}
  /\ pc = "execute_tests"
  /\ adapter \in {Uninitialized, Initialized}
  /\ app_dir \in {FilesNamed(n) : n \in IF language = "java" /\ adapter = Initialized
                                        THEN SomeSources ELSE {{}}}
  /\ tests_dir \in {FilesNamed(n) : n \in IF language = "java" /\ adapter = Initialized
                                          THEN SomeTests ELSE {{}}}

NextToolchain ==
  \/ ExecuteTests
  \/ \E rc \in ReturnCodes, out \in Outputs : CompileSources(rc, out)
  \/ \E rc \in ReturnCodes, out \in Outputs : CompileTests(rc, out)
  \/ \E f \in pending, rc \in ReturnCodes, out \in Outputs : RunTest(f, rc, out)
  \/ \E rc \in ReturnCodes, out \in Outputs : CsRestore(rc, out)
  \/ \E rc \in ReturnCodes, out \in Outputs : CsTest(rc, out)
  \/ \E rc \in ReturnCodes, out \in Outputs : PythonPytest(rc, out)
  \/ LoggerMissing

SpecToolchain == InitToolchain /\ [][NextToolchain]_vars

\* execute from line 42 on: execute_tests of the adapter, then the report
\* of lines 45-52.
NextExecute ==
  \/ NextToolchain
  \/ GenerateReport
  \/ WriteReport

SpecExecute == InitToolchain /\ [][NextExecute]_vars

\* ------------------------------------------------ init_project, called again
\* datetime.now().strftime("%Y%m%d_%H%M%S") at instant t: the text names the
\* second the instant lies in and nothing finer.
StampAt(t) == "20261103_10150" \o ToString(t \div TicksPerSecond)

\* project_name of init_project (java_adapter.py line 22, csharp_adapter.py
\* line 19, python_adapter.py line 20).
ProjectName(lang, stamp) ==
  CASE lang = "java" -> "java_project_" \o stamp
    [] lang = "csharp" -> "cs_project_" \o stamp
    [] OTHER -> "project_" \o stamp

\* work_dir / project_name
ProjectRoot(lang, work_dir, t) == work_dir \o "/" \o ProjectName(lang, StampAt(t))

\* Calls of init_project of the adapters of one language on one work_dir:
\* probe.arg holds the work_dir and the clock, probe.out the roots returned.
InitProjects ==
  /\ AtRest
  /\ language \in {"java", "csharp", "python"}
  /\ pc = "probe"
  /\ adapter = Uninitialized
  /\ app_dir = {}
  /\ tests_dir = {}
  /\ \E w \in {WorkDir, "tmp"} :
       probe = [fn |-> "init_project", arg |-> [work_dir |-> w, clock |-> 0],
                out |-> <<>>]

\* Time passes between calls.
Tick ==
  /\ pc = "probe"
  /\ probe.fn = "init_project"
  /\ probe.arg.clock < MaxClock
  /\ probe' = [probe EXCEPT !.arg.clock = @ + 1]
  /\ UNCHANGED <<language, input_code, pc, idx, adapter, paths, fileVars, genVars,
                 test_codes, execVars, error>>

\* One call of init_project, on the same or on another instance: the root
\* is named after the second of the call and made with
\* mkdir(parents=True, exist_ok=True), the two directories under it with
\* mkdir(exist_ok=True); a root that exists is taken as it is.
InitProjectAgain ==
  /\ pc = "probe"
  /\ probe.fn = "init_project"
  /\ Len(probe.out) < MaxCalls
  /\ LET project_path == ProjectRoot(language, probe.arg.work_dir, probe.arg.clock)
         app_path == project_path \o (IF language = "python" THEN "/app" ELSE "/src")
         tests_path == project_path \o "/tests"
     IN  /\ adapter' = [adapter EXCEPT !.project_path = project_path,
                                           !.app_path = app_path,
                                           !.tests_path = tests_path]
         /\ dirs' = dirs \cup {project_path, app_path, tests_path}
         /\ probe' = [probe EXCEPT !.out = Append(@, project_path)]
  /\ UNCHANGED <<language, input_code, pc, idx, paths, app_dir, tests_dir, report_file,
                 writes, genVars, test_codes, execVars, error>>

SpecProjects == InitProjects /\ [][Tick \/ InitProjectAgain]_vars

\* --------------------------------------------- generate_report of each adapter
\* Exit codes given to a report builder.
ReportCodes == {-9, -1, 0, 1, 2, 127}

\* A builder that refuses to build once a report file is on disk.
GenerateReportOnce(lang, project_path, test_results_, now) ==
  IF report_file # Nothing THEN Raised("FileExistsError")
  ELSE BaseGenerateReport(project_path, lang, test_results_, now)

\* generate_report of the adapter class: "other" is a subclass that inherits
\* LanguageAdapter.generate_report.
GenerateReportOf(lang, project_path, test_results_, now) ==
  CASE lang = "java" -> JavaGenerateReport(project_path, test_results_, now)
    [] lang = "python" -> PythonGenerateReport(project_path, test_results_, now)
    [] lang = "csharp" -> CsGenerateReport(project_path, test_results_, now)
    [] OTHER -> BaseGenerateReport(project_path, lang, test_results_, now)

InitReport ==
  /\ AtRest
  /\ language \in {"java", "csharp", "python", "other"}
  /\ pc = "probe"
  /\ adapter \in {Uninitialized, Initialized}
  /\ app_dir = {}
  /\ tests_dir = {}
  /\ \E rc \in ReportCodes, out \in Outputs :
       probe = [fn |-> "generate_report",
                arg |-> [return_code |-> rc, stdout |-> out],
                out |-> Nothing]

\* The declaration line execute writes (line 50), and the one
\* ElementTree.write(..., xml_declaration=True) writes.
DeclarationLine == <<"?xml", "version=1.0 encoding=utf-8">>
TreeDeclarationLine == <<"?xml", "version='1.0' encoding='utf-8'">>

\* adapter.generate_report(test_results); the builders of PythonAdapter and
\* CsAdapter write test_report.xml themselves (tree.write).
ApplyGenerateReport ==
  /\ pc = "probe"
  /\ probe.fn = "generate_report"
  /\ probe.out = Nothing
  /\ LET out == GenerateReportOf(language, adapter.project_path, probe.arg, Now)
     IN  /\ probe' = [probe EXCEPT !.out = Some(out)]
         /\ report_file' = IF out.raised = "" /\ out.val.wrote_file
                           THEN Some(<<TreeDeclarationLine>> \o out.val.elements)
                           ELSE report_file
  /\ UNCHANGED <<language, input_code, pc, idx, adapter, paths, dirs, app_dir, tests_dir,
                 writes, genVars, test_codes, execVars, error>>

\* The caller persists the text a builder returned, as execute does at
\* lines 48-52: the declaration line, then the text.
PersistReturned ==
  /\ pc = "probe"
  /\ probe.fn = "generate_report"
  /\ probe.out # Nothing
  /\ probe.out[1].raised = ""
  /\ probe.out[1].val.returns = "xml"
  /\ report_file = Nothing
  /\ report_file' = Some(<<DeclarationLine>> \o probe.out[1].val.elements)
  /\ UNCHANGED <<inputVars, pc, idx, adapter, paths, dirs, app_dir, tests_dir, writes,
                 genVars, test_codes, execVars, error>>

SpecReport == InitReport /\ [][ApplyGenerateReport \/ PersistReturned]_vars

\* ------------------------------------------------- generate_report, twice
\* A later reading of the clock.
Later == "2026-11-03T10:15:01"

\* The calls of generate_report made in turn: the result given and the
\* clock reading of the call.
ReportCalls ==
  {[return_code |-> rc, stdout |-> out, now |-> t] :
     rc \in {0, 1}, out \in Outputs, t \in {Now, Later}}

InitReportTwice ==
  /\ AtRest
  /\ language \in {"java", "csharp", "python", "other"}
  /\ pc = "probe"
  /\ adapter = Initialized
  /\ app_dir = {}
  /\ tests_dir = {}
  /\ \E first \in ReportCalls, second \in ReportCalls :
       probe = [fn |-> "generate_report_twice", arg |-> <<first, second>>,
                out |-> <<>>]

\* The next call of adapter.generate_report; probe.out keeps what the call
\* was given and what it built.
ApplyReportCall ==
  /\ pc = "probe"
  /\ probe.fn = "generate_report_twice"
  /\ Len(probe.out) < Len(probe.arg)
  /\ LET call == probe.arg[Len(probe.out) + 1]
         res == [return_code |-> call.return_code, stdout |-> call.stdout]
     IN  probe' = [probe EXCEPT !.out =
                     Append(@, [given |-> <<call.now, adapter.project_path, language,
                                            call.return_code, call.stdout>>,
                                built |-> GenerateReportOf(language, adapter.project_path,
                                                           res, call.now)])]
  /\ UNCHANGED <<language, input_code, pc, idx, adapter, paths, fileVars, genVars,
                 test_codes, execVars, error>>

\* Between two calls the project changes: the report of the first call is
\* on disk (execute lines 48-52) and a source file has been added.
ProjectChanges ==
  /\ pc = "probe"
  /\ probe.fn = "generate_report_twice"
  /\ Len(probe.out) = 1
  /\ report_file = Nothing
  /\ report_file' = Some(<< <<"?xml", "version=1.0 encoding=utf-8">> >>)
  /\ app_dir' = FilesNamed({"Main.java"})
  /\ UNCHANGED <<inputVars, pc, idx, adapter, paths, dirs, tests_dir, writes, genVars,
                 test_codes, execVars, error>>

SpecReportTwice == InitReportTwice /\ [][ApplyReportCall \/ ProjectChanges]_vars

\* --------------------------------------- _generate_single_test of each adapter
\* Tokens of the response texts enumerated token by token.
ProbeToks == {F, NL, "java", "x"}

\* Fence tags of the blocks in composed response texts.
ProbeTags == {"java", "JAVA", "cs", "CS", "csharp", "c#", "python", "PYTHON"}

\* Bodies of those blocks.
Bodies == { <<>>, <<"x">>, <<FromMainImport, SP, "y">> }

\* The pieces response texts are composed of: tagged blocks, untagged
\* blocks, prose.
Segments ==
  {<<F, t, NL>> \o b \o <<NL, F>> : t \in ProbeTags, b \in Bodies}
    \cup {<<F, NL>> \o b \o <<NL, F>> : b \in Bodies}
    \cup { <<"x">>, <<NL>> }

RECURSIVE Flatten(_)
Flatten(ss) ==
  IF ss = <<>> THEN <<>> ELSE Head(ss) \o Flatten(Tail(ss))

ResponseTexts ==
  SeqsUpTo(ProbeToks, MaxLen) \cup {Flatten(ss) : ss \in SeqsUpTo(Segments, MaxSegs)}

\* What send_message may return (see Shapes).
ProbeResponses ==
  {[shape |-> sh, text |-> t] : sh \in {"str", "text_block"}, t \in ResponseTexts}
    \cup {[shape |-> sh, text |-> <<>>] : sh \in {"empty_list", "no_text", "none_text"}}
    \cup {[shape |-> "object", text |-> <<"<object>">>]}

\* module_name of PythonAdapter._generate_single_test (lines 64-69).
PythonModuleName(index) ==
  IF input_code.kind = "list" THEN "module_" \o ToString(index) ELSE "main"

\* The test code _generate_single_test of the adapter class extracts.
GenerateSingleTestOf(lang, response) ==
  CASE lang = "java" -> JavaGenerateSingleTest(response)
    [] lang = "csharp" -> CsGenerateSingleTest(response)
    [] OTHER -> PythonGenerateSingleTest(response, PythonModuleName(0))

InitExtract ==
  /\ AtRest
  /\ language \in {"java", "csharp", "python"}
  /\ pc = "probe"
  /\ adapter = Initialized
  /\ app_dir = {}
  /\ tests_dir = {}
  /\ \E response \in ProbeResponses :
       probe = [fn |-> "_generate_single_test", arg |-> response, out |-> Nothing]

\* adapter._generate_single_test(code), send_message returning probe.arg
ApplyGenerateSingleTest ==
  /\ pc = "probe"
  /\ probe.fn = "_generate_single_test"
  /\ probe.out = Nothing
  /\ probe' = [probe EXCEPT !.out = Some(GenerateSingleTestOf(language, probe.arg))]
  /\ UNCHANGED <<language, input_code, pc, idx, adapter, paths, fileVars, genVars,
                 test_codes, execVars, error>>

SpecExtract == InitExtract /\ [][ApplyGenerateSingleTest]_vars

\* ------------------------------- prepare_app_code, prepare_test_code (Java)
\* Tokens of the code texts enumerated token by token.
NameToks == {"public", "class", SP, "A"}

\* The code handed to prepare_app_code or prepare_test_code.
ProbeCodes == SeqsUpTo(NameToks, MaxLen)

\* prepare_app_code or prepare_test_code of JavaAdapter, by name.
PrepareOf(fn, code, index) ==
  IF fn = "prepare_app_code" THEN JavaPrepareAppCode(code, index)
  ELSE JavaPrepareTestCode(code, index)

InitNames ==
  /\ AtRest
  /\ language = "java"
  /\ pc = "probe"
  /\ adapter = Initialized
  /\ app_dir = {}
  /\ tests_dir = {}
  /\ \E fn \in {"prepare_app_code", "prepare_test_code"}, code \in ProbeCodes,
        index \in 0 .. MaxN :
       probe = [fn |-> fn, arg |-> [code |-> code, index |-> index], out |-> Nothing]

\* adapter.prepare_app_code(code, index) or adapter.prepare_test_code(code, index)
ApplyPrepare ==
  /\ pc = "probe"
  /\ probe.fn \in {"prepare_app_code", "prepare_test_code"}
  /\ probe.out = Nothing
  /\ probe' = [probe EXCEPT !.out = Some(PrepareOf(probe.fn, probe.arg.code, probe.arg.index))]
  /\ UNCHANGED <<language, input_code, pc, idx, adapter, paths, fileVars, genVars,
                 test_codes, execVars, error>>

SpecNames == InitNames /\ [][ApplyPrepare]_vars

\* ------------------------------------- add_using_directives (CsAdapter)
\* The text "using System;".
UsingSystem == <<"using", SP, "System", ";">>

\* pat in text
Contains(text, pat) ==
  \E i \in 1 .. Len(text) - Len(pat) + 1 : SubSeq(text, i, i + Len(pat) - 1) = pat

\* str.strip(): the text without its leading and trailing white space.
RECURSIVE LStrip(_)
LStrip(text) ==
  IF text # <<>> /\ Head(text) \in SpaceToks THEN LStrip(Tail(text)) ELSE text
RECURSIVE RStrip(_)
RStrip(text) ==
  IF text # <<>> /\ text[Len(text)] \in SpaceToks
  THEN RStrip(SubSeq(text, 1, Len(text) - 1)) ELSE text
Strip(text) == LStrip(RStrip(text))

\* text.startswith(prefix)
StartsWith(text, prefix) ==
  Len(text) >= Len(prefix) /\ SubSeq(text, 1, Len(prefix)) = prefix

\* text.split("\n"): the lines of the text (one more than its line breaks).
RECURSIVE SplitLines(_)
SplitLines(text) ==
  IF \A i \in 1 .. Len(text) : text[i] # NL THEN <<text>>
  ELSE LET n == CHOOSE i \in 1 .. Len(text) :
                  text[i] = NL /\ \A j \in 1 .. i - 1 : text[j] # NL
       IN  <<SubSeq(text, 1, n - 1)>> \o SplitLines(SubSeq(text, n + 1, Len(text)))

\* The lines of the loop of lines 81-87 that go to using_lines (keep = TRUE)
\* or to other_lines (keep = FALSE), in order.
RECURSIVE LinesWhere(_, _)
LinesWhere(lines, keep) ==
  IF lines = <<>> THEN <<>>
  ELSE IF StartsWith(Strip(Head(lines)), <<"using", SP>>) = keep
       THEN <<Head(lines)>> \o LinesWhere(Tail(lines), keep)
       ELSE LinesWhere(Tail(lines), keep)

\* A decoration that puts the directive first without looking for it.
AddUsingDirectivesAlways(code) ==
  UsingSystem \o <<NL, NL>> \o code

\* add_using_directives(code), csharp_adapter.py lines 69-93.
AddUsingDirectives(code) ==
  IF ~Contains(code, UsingSystem)
  THEN IF ~StartsWith(Strip(code), <<"using">>)
       THEN UsingSystem \o <<NL, NL>> \o code
       ELSE LET lines == SplitLines(code)
                using_lines == LinesWhere(lines, TRUE)
                other_lines == LinesWhere(lines, FALSE)
                found_system == \E i \in 1 .. Len(using_lines) :
                                  Contains(using_lines[i], UsingSystem)
            IN  JoinLines((IF found_system THEN using_lines
                           ELSE <<UsingSystem>> \o using_lines)
                          \o << <<>> >> \o other_lines)
  ELSE code

\* Tokens of the C# texts enumerated token by token.
UsingToks == {"using", SP, NL, "System", ";"}

\* The pieces C# texts are composed of: directives, statements, white space.
UsingSegments ==
  { <<"using", SP, "A", ";", NL>>, <<"using", SP, "B", ";", NL>>,
    <<"using", SP, "B", ";">>, <<SP, "using", SP, "A", ";", SP, NL>>,
    UsingSystem \o <<NL>>, <<"x", ";", NL>>, <<"x", ";">>,
    <<"using", SP, "(", "x", ")", NL>>, <<NL>>, <<SP>> }

\* The code handed to add_using_directives.
UsingCodes ==
  SeqsUpTo(UsingToks, MaxLen) \cup {Flatten(ss) : ss \in SeqsUpTo(UsingSegments, MaxSegs)}

InitUsing ==
  /\ AtRest
  /\ language = "csharp"
  /\ pc = "probe"
  /\ adapter = Uninitialized
  /\ app_dir = {}
  /\ tests_dir = {}
  /\ \E code \in UsingCodes :
       probe = [fn |-> "add_using_directives", arg |-> code, out |-> <<>>]

\* add_using_directives applied to the code, then to what it returned:
\* probe.out holds the texts returned, in turn.
ApplyAddUsingDirectives ==
  /\ pc = "probe"
  /\ probe.fn = "add_using_directives"
  /\ Len(probe.out) < MaxCalls
  /\ probe' = [probe EXCEPT !.out =
                 Append(@, AddUsingDirectives(IF @ = <<>> THEN probe.arg ELSE @[Len(@)]))]
  /\ UNCHANGED <<language, input_code, pc, idx, adapter, paths, fileVars, genVars,
                 test_codes, execVars, error>>

SpecUsing == InitUsing /\ [][ApplyAddUsingDirectives]_vars

\* ------------------------------------------------------------------ claims
\* generate_tests has returned to execute (and execute has not failed since).
GenerationReturned ==
  /\ error = ""
  /\ \/ input_code.kind = "list" /\ loop = "closed"
     \/ input_code.kind = "str" /\ tasks[0] = "done" /\ pc # "single_test"

\* The text carries the mark of the call made for snippet i.
HasMark(text, i) == \E p \in 1 .. Len(text) : text[p] = Mark(i)

\* The calls of a batch ended in an order other than the list order.
OutOfOrder ==
  \E p, q \in 1 .. Len(done_order) : p < q /\ done_order[p] > done_order[q]

\* C1: whatever the order in which the generation calls complete,
\* generate_tests returns N results, the one at position i being what the
\* call made for snippet i returned, and execute hands exactly that result
\* to prepare_test_code with index i (the file written in iteration i holds it).
C1_IndexOrderPreserved ==
  /\ GenerationReturned =>
       /\ Len(test_codes) = Len(input_code.codes)
       /\ \A i \in Indices :
            /\ test_codes[i + 1] = results[i][1].val
            /\ HasMark(test_codes[i + 1], i)
  /\ \A f \in tests_dir :
       /\ f.content = results[f.index][1].val
       /\ HasMark(f.content, f.index)
       /\ f.name = JavaPrepareTestCode(results[f.index][1].val, f.index).filename

C1_Witness ==
  /\ pc = "execute_tests"
  /\ input_code.kind = "list"
  /\ OutOfOrder
  /\ Cardinality(tests_dir) = Len(input_code.codes)
  /\ \A f \in tests_dir : HasMark(f.content, f.index)

\* The loop of execute has written the file of index i to directory d.
Written(d, i) ==
  \E p \in 1 .. Len(writes) : writes[p].dir = d /\ writes[p].index = i

\* adapter.execute_tests has been called.
ExecuteTestsInvoked ==
  \/ pc \in {"javac_src", "javac_tests", "run_tests", "generate_report",
             "write_report", "done"}
  \/ procs # <<>>
  \/ test_results # Nothing

\* C2: execute_tests is not invoked until every generated test of the run
\* has been written as a file in the tests directory.
C2_TestsWrittenBeforeExecution ==
  ExecuteTestsInvoked =>
    /\ Len(test_codes) = Len(input_code.codes)
    /\ \A i \in Indices :
         /\ Written("tests", i)
         /\ \E f \in tests_dir :
              f.name = JavaPrepareTestCode(test_codes[i + 1], i).filename

C2_Witness ==
  /\ procs # <<>>
  /\ Len(test_codes) >= 2
  /\ \A i \in Indices : Written("tests", i)

\* C3: execute does not overlap its stages: no generation call is issued
\* (no task even created) before every source file has been written, no
\* test file is written while a generation task of the run is unfinished, and
\* the report is built only after execute_tests has returned.
C3_NoPipelining ==
  /\ \A k \in Indices :
       (calls[k] > 0 \/ tasks[k] # "none") => \A i \in Indices : Written("src", i)
  /\ (\E i \in Indices : Written("tests", i)) =>
       /\ \A k \in Indices : tasks[k] = "done"
       /\ loop \in {"none", "closed"}
  /\ report_xml # Nothing =>
       /\ test_results # Nothing
       /\ pc \notin {"execute_tests", "javac_src", "javac_tests", "run_tests"}
  /\ report_file # Nothing => report_xml # Nothing

C3_Witness ==
  /\ pc = "done"
  /\ input_code.kind = "list"
  /\ Len(input_code.codes) >= 2
  /\ report_file # Nothing
  /\ \E p \in 1 .. Len(procs) : procs[p].cmd = "java"

\* C4: when execute reaches execute_tests, the source directory holds exactly
\* N source files and the tests directory exactly N test files, under
\* pairwise distinct names: no write of one index replaced the file of another.
C4_ExactlyNDistinctFiles ==
  (pc = "execute_tests" \/ ExecuteTestsInvoked) =>
    /\ Cardinality(app_dir) = Len(input_code.codes)
    /\ Cardinality(tests_dir) = Len(input_code.codes)
    /\ \A p, q \in 1 .. Len(writes) :
         (p < q /\ writes[p].dir = writes[q].dir) => writes[p].name # writes[q].name

\* generate_tests has ended, by returning or by raising.
GenerationEnded ==
  /\ loop # "none" \/ \E k \in Indices : tasks[k] # "none"
  /\ pc \notin {"init_project", "write_sources", "generate_tests", "single_test", "gather"}

ElementText(elements, tag) ==
  (CHOOSE i \in 1 .. Len(elements) : elements[i][1] = tag)

ReportBuilt ==
  /\ probe.fn = "generate_report"
  /\ probe.out # Nothing
  /\ probe.out[1].raised = ""

ReportStatus ==
  LET elements == probe.out[1].val.elements
  IN  elements[ElementText(elements, "status")][2]

\* C6: for every execution result, negative exit codes included, and the
\* report builder of every adapter, the status of the built report is
\* "passed" if and only if return_code is 0, and "failed" otherwise.
C6_StatusPassedIffZero ==
  ReportBuilt =>
    /\ \E i \in 1 .. Len(probe.out[1].val.elements) :
         probe.out[1].val.elements[i][1] = "status"
    /\ ReportStatus = "passed" <=> probe.arg.return_code = 0
    /\ ReportStatus = "failed" <=> probe.arg.return_code # 0

C6_Witness ==
  /\ ReportBuilt
  /\ language = "java"
  /\ probe.arg.return_code < 0
  /\ ReportStatus = "failed"

\* C7: in execute_tests of the multi-step adapters no toolchain step is
\* invoked after a step that exited non-zero: every process but the last run
\* exited 0, dotnet test follows only a restore that exited 0, a javac over
\* the tests only a javac over the sources that exited 0, and a test class
\* only two compilations and test classes that all exited 0.
C7_NoStepAfterFailure ==
  /\ \A p \in 1 .. Len(procs) : p < Len(procs) => procs[p].rc = 0
  /\ \A p \in 1 .. Len(procs) :
       /\ procs[p].cmd = "dotnet_test" =>
            (p = 2 /\ procs[1].cmd = "dotnet_restore" /\ procs[1].rc = 0)
       /\ procs[p].cmd = "javac_tests" =>
            (p = 2 /\ procs[1].cmd = "javac_src" /\ procs[1].rc = 0)
       /\ procs[p].cmd = "java" =>
            (p > 2 /\ procs[2].cmd = "javac_tests" /\ procs[2].rc = 0)
  /\ (procs # <<>> /\ procs[Len(procs)].rc # 0) =>
       (test_results # Nothing /\ pc = "generate_report")

C7_Witness ==
  /\ language = "java"
  /\ Len(procs) = 4
  /\ procs[3].cmd = "java" /\ procs[3].rc = 0
  /\ procs[4].cmd = "java" /\ procs[4].rc # 0
  /\ pending # {}
  /\ test_results # Nothing

\* ----- the three-tier rule, stated over the blocks of a text
\* A fence opening a block tagged with one of tags (any letter case) at s.
OpensTagged(text, s, tags) ==
  /\ s + 2 <= Len(text)
  /\ text[s] = F
  /\ Lower(text[s + 1]) \in tags
  /\ text[s + 2] = NL

\* A fence opening an untagged block at s.
OpensGeneric(text, s) ==
  /\ s + 1 <= Len(text)
  /\ text[s] = F
  /\ text[s + 1] = NL

\* A line break followed by a fence at e.
Closes(text, e) ==
  /\ e + 1 <= Len(text)
  /\ text[e] = NL
  /\ text[e + 1] = F

\* The blocks <<s, b, e>> of a text: opened at s, body from b, closed by the
\* first closing fence at e >= b.
TaggedBlocks(text, tags) ==
  {<<s, s + 3, e>> : s \in 1 .. Len(text), e \in 1 .. Len(text)} \cap
  {blk \in (1 .. Len(text)) \X (1 .. Len(text) + 3) \X (1 .. Len(text)) :
     /\ OpensTagged(text, blk[1], tags)
     /\ blk[3] >= blk[2]
     /\ Closes(text, blk[3])
     /\ \A m \in blk[2] .. (blk[3] - 1) : ~Closes(text, m)}

GenericBlocks(text) ==
  {<<s, s + 2, e>> : s \in 1 .. Len(text), e \in 1 .. Len(text)} \cap
  {blk \in (1 .. Len(text)) \X (1 .. Len(text) + 2) \X (1 .. Len(text)) :
     /\ OpensGeneric(text, blk[1])
     /\ blk[3] >= blk[2]
     /\ Closes(text, blk[3])
     /\ \A m \in blk[2] .. (blk[3] - 1) : ~Closes(text, m)}

\* The body of the first block of a non-empty set of blocks.
FirstBody(text, blocks) ==
  LET blk == CHOOSE b \in blocks : \A c \in blocks : b[1] <= c[1]
  IN  SubSeq(text, blk[2], blk[3] - 1)

ThreeTier(text, tags) ==
  IF TaggedBlocks(text, tags) # {} THEN FirstBody(text, TaggedBlocks(text, tags))
  ELSE IF GenericBlocks(text) # {} THEN FirstBody(text, GenericBlocks(text))
  ELSE text

Aliases(lang) ==
  CASE lang = "java" -> JavaTags
    [] lang = "csharp" -> CsTags
    [] OTHER -> PyTags

Extracted ==
  /\ probe.fn = "_generate_single_test"
  /\ probe.out # Nothing

GivenText == probe.arg.shape \in {"str", "text_block"}

\* C8: for every adapter (Python, C#, Java) and every response text the
\* extracted test code follows the three-tier rule: the body of the first
\* block tagged with an alias of the language (any letter case), else the
\* body of the first untagged block, else the whole response text.
C8_ThreeTierEveryAdapter ==
  (Extracted /\ GivenText) =>
    /\ probe.out[1].raised = ""
    /\ probe.out[1].val = ThreeTier(probe.arg.text, Aliases(language))

\* C9 as stated: for any response text, the empty text included,
\* JavaAdapter._generate_single_test returns a non-empty text equal to the
\* tagged block, else the generic block, else the full response.
C9_TotalAndNonEmpty ==
  (Extracted /\ GivenText /\ language = "java") =>
    /\ probe.out[1].raised = ""
    /\ probe.out[1].val # <<>>
    /\ probe.out[1].val = ThreeTier(probe.arg.text, JavaTags)

\* C9 amended: for any response text JavaAdapter._generate_single_test
\* returns the tagged block, else the generic block, else the full response;
\* the returned text is non-empty when the response is non-empty and holds
\* no fenced block, and is empty exactly when the response is empty or the
\* block selected has an empty body.
C9_TotalThreeTier ==
  (Extracted /\ GivenText /\ language = "java") =>
    LET text == probe.arg.text
        tagged == TaggedBlocks(text, JavaTags)
        generic == GenericBlocks(text)
        selected == IF tagged # {} THEN tagged ELSE generic
    IN  /\ probe.out[1].raised = ""
        /\ probe.out[1].val = ThreeTier(text, JavaTags)
        /\ (selected = {} /\ text # <<>>) => probe.out[1].val # <<>>
        /\ probe.out[1].val = <<>> <=>
             \/ selected = {} /\ text = <<>>
             \/ selected # {} /\ FirstBody(text, selected) = <<>>

C9_Witness ==
  /\ Extracted
  /\ GivenText
  /\ language = "java"
  /\ TaggedBlocks(probe.arg.text, JavaTags) = {}
  /\ TaggedBlocks(probe.arg.text, PyTags) # {}
  /\ GenericBlocks(probe.arg.text) # {}
  /\ probe.out[1].val # <<>>
  /\ probe.out[1].val # probe.arg.text

\* C10: when send_message returns normally JavaAdapter._generate_single_test
\* never raises, whatever the shape of the response, and returns the raw
\* response text for a response that is no list with a first element.
C10_NeverRaises ==
  (Extracted /\ language = "java") =>
    /\ probe.out[1].raised = ""
    /\ probe.arg.shape \in {"empty_list", "object"} =>
         probe.out[1].val = TextContent(probe.arg).val

\* ----- execute_tests and the lifecycle
\* execute_tests has been called and has ended, by return or by raise.
ExecuteTestsEnded == pc \in {"generate_report", "raised"}

\* C11: for every adapter, execute_tests on an instance on which
\* init_project was never called fails with the state error (RuntimeError,
\* "Project not initialized") and starts no toolchain process.
C11_StateErrorWhenUninitialized ==
  (adapter = Uninitialized /\ ExecuteTestsEnded) =>
    /\ pc = "raised"
    /\ error = "RuntimeError"
    /\ procs = <<>>
    /\ test_results = Nothing

\* C12: execute_tests called right after init_project, before any source or
\* test file has been written, is rejected with the state error and returns
\* no execution result.
C12_RejectedBeforeFilesWritten ==
  (adapter = Initialized /\ app_dir = {} /\ tests_dir = {} /\ pc # "execute_tests") =>
    /\ error = "RuntimeError"
    /\ test_results = Nothing
    /\ procs = <<>>

\* ----- the report as the terminal artifact
\* C13: a run of execute that meets no hard failure ends with the one report
\* file test_report.xml under the project root; a run in which init_project,
\* a file write, a generation call or execute_tests raises writes no report
\* file, and the error reaches the caller of execute.
C13_OneReportUnlessHardFailure ==
  /\ pc = "done" => (report_file # Nothing /\ error = "")
  /\ report_file # Nothing => (pc = "done" /\ adapter.project_path \in dirs)
  /\ error # "" => (report_file = Nothing /\ pc \in {"raised", "gather"})
  /\ pc = "raised" => (error # "" /\ report_file = Nothing)
  /\ (\E k \in Indices : tasks[k] = "failed") =>
       (report_file = Nothing /\ pc \in {"single_test", "gather", "raised"})

C13_Witness ==
  /\ pc = "raised"
  /\ error = "OSError"
  /\ tests_dir # {}
  /\ Len(test_codes) > Cardinality(tests_dir)
  /\ procs = <<>>
  /\ report_file = Nothing

\* The text of child element tag in a list of elements.
TextOf(elements, tag) == elements[ElementText(elements, tag)][2]

\* C14: a toolchain step that exits non-zero never makes execute_tests
\* raise: execute_tests returns a result with that return_code, and execute
\* goes on to build and write a report whose status is "failed".
C14_FailureIsReported ==
  \A p \in 1 .. Len(procs) :
    procs[p].rc # 0 =>
      /\ error = ""
      /\ pc \in {"generate_report", "write_report", "done"}
      /\ test_results # Nothing
      /\ test_results[1].return_code = procs[p].rc
      /\ report_xml # Nothing =>
           /\ TextOf(report_xml[1], "status") = "failed"
           /\ TextOf(report_xml[1], "return_code") = ToString(procs[p].rc)
      /\ pc = "done" =>
           /\ report_file # Nothing
           /\ TextOf(report_file[1], "status") = "failed"
      /\ report_file # Nothing => pc = "done"

C14_Witness ==
  /\ language = "java"
  /\ pc = "done"
  /\ Len(procs) = 3
  /\ procs[3].cmd = "java"
  /\ procs[3].rc = -9
  /\ report_file # Nothing
  /\ TextOf(report_file[1], "status") = "failed"

\* ----- a failing batch
\* C15: in a batch, once the generation call of one snippet has raised,
\* generate_tests returns no result list, partial or other, and raises the
\* error of a failed call; execute writes no test file for any index, runs
\* no toolchain and writes no report.
C15_BatchAbortsWhole ==
  (input_code.kind = "list" /\ \E k \in Indices : tasks[k] = "failed") =>
    /\ test_codes = <<>>
    /\ tests_dir = {}
    /\ \A w \in 1 .. Len(writes) : writes[w].dir = "src"
    /\ procs = <<>>
    /\ test_results = Nothing
    /\ report_file = Nothing
    /\ pc \in {"gather", "raised"}
    /\ pc = "raised" =>
         \E k \in Indices : tasks[k] = "failed" /\ error = results[k][1].raised

C15_Witness ==
  /\ input_code.kind = "list"
  /\ pc = "raised"
  /\ \E k \in Indices : tasks[k] = "failed" /\ error = results[k][1].raised
  /\ \E k \in Indices : tasks[k] = "done"
  /\ tests_dir = {}

\* ----- one executor, every adapter
\* C16: execute can drive each of PythonAdapter, CsAdapter and JavaAdapter:
\* every call it makes names a method that the contract declares and that
\* the adapter defines with that arity, so that no run ends with the adapter
\* refused at construction or a call refused for its name or arity.
C16_EveryAdapterDrivable ==
  /\ error # "TypeError"
  /\ pc \notin {"construct", "raised"} =>
       \A c \in ExecutorCalls : c \in DefinedMethods(language) \cup InheritedMethods

\* ----- project roots
\* C17: any two calls of init_project with the same work_dir, on adapters of
\* one language and at any two times, the same clock second included,
\* return distinct project roots.
C17_DistinctProjectRoots ==
  probe.fn = "init_project" =>
    \A i, j \in 1 .. Len(probe.out) : i # j => probe.out[i] # probe.out[j]

Tags(elements) == [i \in 1 .. Len(elements) |-> elements[i][1]]

\* C19: for every adapter the report file persisted is the XML declaration
\* line followed by one test_report element whose children are exactly
\* timestamp, project_path, language, return_code, output and status, with
\* return_code the decimal text of the exit code and output the toolchain
\* output.
C19_ReportFileFormat ==
  (probe.fn = "generate_report" /\ report_file # Nothing) =>
    LET file == report_file[1]
        children == Tail(file)
    IN  /\ Head(file)[1] = "?xml"
        /\ Tags(children) =
             <<"timestamp", "project_path", "language", "return_code", "output", "status">>
        /\ TextOf(children, "return_code") = ToString(probe.arg.return_code)
        /\ TextOf(children, "output") = probe.arg.stdout

\* ----- a single snippet
\* The writes made so far into directory d.
WritesInto(d) == {w \in 1 .. Len(writes) : writes[w].dir = d}

\* C20: with a single string as input, one source file and one test file
\* are prepared, both with index 0, and generation is one synchronous call
\* of _generate_single_test on the calling thread: no event loop is started
\* and no task is created or queued.
C20_SingleStringDegenerates ==
  input_code.kind = "str" =>
    /\ Indices = {0}
    /\ loop = "none"
    /\ tasks[0] \in {"none", "running", "done", "failed"}
    /\ tasks[0] = "running" => pc = "single_test"
    /\ calls[0] <= 1
    /\ \A w \in 1 .. Len(writes) : writes[w].index = 0
    /\ Cardinality(WritesInto("src")) <= 1
    /\ Cardinality(WritesInto("tests")) <= 1
    /\ pc \in {"generate_tests", "single_test", "write_tests"} =>
         Cardinality(WritesInto("src")) = 1
    /\ pc \in {"execute_tests", "javac_src", "javac_tests", "run_tests",
               "generate_report", "write_report", "done"} =>
         /\ Cardinality(WritesInto("src")) = 1
         /\ Cardinality(WritesInto("tests")) = 1
         /\ Cardinality(app_dir) = 1
         /\ Cardinality(tests_dir) = 1
         /\ calls[0] = 1
         /\ Len(test_codes) = 1

C20_Witness ==
  /\ input_code.kind = "str"
  /\ pc = "done"
  /\ calls[0] = 1
  /\ Cardinality(WritesInto("src")) = 1
  /\ Cardinality(WritesInto("tests")) = 1
  /\ loop = "none"

\* ----- the result of a failing step
\* C21: when a step of a multi-step toolchain exits non-zero (dotnet restore
\* for C#; javac over the sources, javac over the tests or a test class for
\* Java), execute_tests returns a result whose return_code is that step's
\* exit code and whose stdout is that step's own output, unchanged.
C21_FailingStepOutputUnchanged ==
  \A p \in 1 .. Len(procs) :
    (procs[p].rc # 0 /\ procs[p].cmd \in {"dotnet_restore", "javac_src", "javac_tests", "java"}) =>
      /\ test_results # Nothing
      /\ test_results[1].return_code = procs[p].rc
      /\ test_results[1].stdout = procs[p].out

\* ----- the tasks of a batch
\* A step of the generation task of snippet k: its call starts or ends.
TaskStep(k) ==
  \/ tasks[k] = "queued" /\ tasks'[k] = "running"
  \/ tasks[k] = "running" /\ tasks'[k] \in {"done", "failed"}

\* C22: during batch generation a step of the task of snippet k writes
\* nothing but what is addressed by k (its result slot, its status, its call
\* count): the slots of every other snippet, the adapter and its engine, the
\* files and the executor's own state stay as they are, whatever the
\* interleaving; a result slot is written once, by its own task, and a slot
\* changes only in a step of its own task.
C22_TasksWriteOnlyOwnSlot ==
  [][input_code.kind = "list" =>
       /\ \A k \in Indices :
            TaskStep(k) =>
              /\ \A j \in Indices \ {k} :
                   /\ results'[j] = results[j]
                   /\ tasks'[j] = tasks[j]
                   /\ calls'[j] = calls[j]
              /\ adapter' = adapter
              /\ paths' = paths
              /\ UNCHANGED <<inputVars, pc, idx, fileVars, loop, test_codes, execVars, error>>
       /\ \A k \in Indices :
            results'[k] # results[k] =>
              /\ results[k] = Nothing
              /\ tasks[k] = "running"
              /\ TaskStep(k)
       /\ \A k \in Indices : calls'[k] # calls[k] => TaskStep(k)]_vars

C22_Witness ==
  /\ input_code.kind = "list"
  /\ Cardinality(Running) >= 2
  /\ \E k \in Indices :
       /\ tasks[k] = "done"
       /\ HasMark(results[k][1].val, k)
       /\ \E j \in Running : j < k
  /\ \A j \in Running : results[j] = Nothing
  /\ adapter.llm = Engine

\* C23: once the tasks of a batch have been dispatched, each call runs to
\* its completion or to its own failure: no call is cancelled or interrupted
\* because another one failed, and when generate_tests hands control back,
\* by return or by raise, the call of every snippet has finished.
C23_DispatchedCallsRunToEnd ==
  input_code.kind = "list" =>
    /\ \A k \in Indices : tasks[k] # "cancelled"
    /\ GenerationEnded => \A k \in Indices : tasks[k] \in {"done", "failed"}

\* A call that has not started yet.
NotStarted == {j \in Indices : tasks[j] \in {"created", "queued"}}

\* The batch is in progress: the loop is handing calls over or waiting.
BatchInProgress == input_code.kind = "list" /\ loop \in {"submitting", "waiting"}

\* The next call can be handed over or started now.
CanStartOne == ENABLED (Submit \/ \E j \in Indices : StartCall(j))

\* The N tasks of a batch are created together, one per snippet, and all of
\* them are handed over before the loop waits for any result; generate_tests
\* returns normally only once all N calls have completed.
AllIssuedThenAwaited ==
  input_code.kind = "list" =>
    /\ (\E k \in Indices : tasks[k] # "none") => \A k \in Indices : tasks[k] # "none"
    /\ loop \in {"waiting", "cleanup", "closed"} =>
         \A k \in Indices : tasks[k] \notin {"none", "created"}
    /\ GenerationReturned =>
         /\ \A k \in Indices : tasks[k] = "done"
         /\ Len(test_codes) = Len(input_code.codes)

\* C24 as stated: all N tasks are created before generate_tests waits for a
\* result and it returns normally only after all N have completed; while the
\* batch is in progress a call that has not started can always start, however
\* slow the calls already running.
C24_SlowCallNeverDelays ==
  /\ AllIssuedThenAwaited
  /\ (BatchInProgress /\ NotStarted # {}) => CanStartOne

\* C24 as amended: all N tasks are created before generate_tests waits for a
\* result and it returns normally only after all N have completed; a call
\* that has not started can start whenever a worker thread of the pool is
\* free, and is delayed by the running calls only while every worker is busy.
C24_DelayedOnlyByBusyWorkers ==
  /\ AllIssuedThenAwaited
  /\ (BatchInProgress /\ NotStarted # {} /\ Cardinality(Running) < MaxWorkers) =>
       CanStartOne
  /\ (BatchInProgress /\ NotStarted # {} /\ ~CanStartOne) =>
       Cardinality(Running) = MaxWorkers

C24_Witness ==
  /\ BatchInProgress
  /\ loop = "waiting"
  /\ Cardinality(Running) = MaxWorkers
  /\ NotStarted # {}
  /\ ~CanStartOne

\* ----- the project layout
\* init_project has returned its paths to execute.
InitProjectReturned == adapter.project_path # ""

\* The three directories of the layout exist.
LayoutExists ==
  {adapter.project_path, adapter.app_path, adapter.tests_path} \subseteq dirs

\* C25: in every run the project root, the source directory and the tests
\* directory exist once init_project has returned, and so whenever a source
\* file, a test file or the report file has been written; execute writes
\* nothing before init_project has returned.
C25_LayoutExistsBeforeWrites ==
  /\ InitProjectReturned => LayoutExists
  /\ pc \notin {"init_project", "raised"} => InitProjectReturned
  /\ (writes # <<>> \/ app_dir # {} \/ tests_dir # {} \/ report_file # Nothing) =>
       (InitProjectReturned /\ LayoutExists)

C25_Witness ==
  /\ pc = "done"
  /\ report_file # Nothing
  /\ app_dir # {}
  /\ tests_dir # {}
  /\ LayoutExists
  /\ adapter.app_path = adapter.project_path \o "/src"

\* ----- the report builder's effects
\* C26: generate_report of every adapter is a pure builder: it writes no
\* file, leaves the adapter as it was and returns the report text; a report
\* file on disk is the one the caller wrote from the returned text.
C26_ReportBuilderIsPure ==
  ReportBuilt =>
    /\ ~probe.out[1].val.wrote_file
    /\ probe.out[1].val.returns = "xml"
    /\ adapter \in {Uninitialized, Initialized}
    /\ report_file # Nothing =>
         report_file[1] = <<DeclarationLine>> \o probe.out[1].val.elements

\* ----- the names of the Java files
\* Positions a .. b of s all hold tokens of S.
AllIn(s, a, b, S) == \A i \in a .. b : s[i] \in S

\* A declaration "public class X" stands at position p of the text: "public",
\* white space, "class", white space, a name.
DeclaresAt(code, p) ==
  /\ code[p] = "public"
  /\ \E b \in p + 2 .. Len(code) :
       /\ code[b] = "class"
       /\ AllIn(code, p + 1, b - 1, SpaceToks)
       /\ \E d \in b + 2 .. Len(code) :
            /\ code[d] \in WordToks
            /\ AllIn(code, b + 1, d - 1, SpaceToks)

\* The name X of the declaration at p: the whole run of word characters
\* after the white space that follows "class".
NameAt(code, p) ==
  LET b == CHOOSE i \in p + 2 .. Len(code) : code[i] = "class" /\ AllIn(code, p + 1, i - 1, SpaceToks)
      d == CHOOSE i \in b + 2 .. Len(code) : code[i] \in WordToks /\ AllIn(code, b + 1, i - 1, SpaceToks)
      e == CHOOSE i \in d .. Len(code) :
             AllIn(code, d, i, WordToks) /\ (i = Len(code) \/ code[i + 1] \notin WordToks)
  IN  Spell(SubSeq(code, d, e))

\* The name X of the first declaration "public class X", if there is one.
DeclaredClass(code) ==
  LET at == {p \in 1 .. Len(code) : DeclaresAt(code, p)}
  IN  IF at = {} THEN Nothing
      ELSE Some(NameAt(code, CHOOSE p \in at : \A q \in at : p <= q))

\* The index convention for source files and for test files.
SourceNameByIndex(index) ==
  IF index = 0 THEN "Main.java" ELSE "Module" \o ToString(index) \o ".java"
TestNameByIndex(index) ==
  IF index = 0 THEN "MainTest.java" ELSE "Module" \o ToString(index) \o "Test.java"

\* prepare_app_code or prepare_test_code has returned.
Prepared(fn) == probe.fn = fn /\ probe.out # Nothing

\* The source file is X.java if the code declares "public class X", and
\* named by the index convention otherwise; the code is passed through.
SourceNamedByIntrospection ==
  Prepared("prepare_app_code") =>
    /\ probe.out[1].content = probe.arg.code
    /\ probe.out[1].filename =
         IF DeclaredClass(probe.arg.code) # Nothing
         THEN DeclaredClass(probe.arg.code)[1] \o ".java"
         ELSE SourceNameByIndex(probe.arg.index)

\* C27 as stated: the source file is named by introspection with the index
\* convention as fallback, and the test file of index i by the index
\* convention: MainTest.java for index 0, Module<i>Test.java for i > 0.
C27_TestNamedByIndex ==
  /\ SourceNamedByIntrospection
  /\ Prepared("prepare_test_code") =>
       probe.out[1].filename = TestNameByIndex(probe.arg.index)

\* C27 as amended: source file and test file are both named by
\* introspection with the index convention as fallback: the test file is
\* X.java if the test code declares "public class X", and otherwise
\* MainTest.java for index 0 and Module<i>Test.java for i > 0.
C27_BothNamedByIntrospection ==
  /\ SourceNamedByIntrospection
  /\ Prepared("prepare_test_code") =>
       /\ probe.out[1].content = probe.arg.code
       /\ probe.out[1].filename =
            IF DeclaredClass(probe.arg.code) # Nothing
            THEN DeclaredClass(probe.arg.code)[1] \o ".java"
            ELSE TestNameByIndex(probe.arg.index)

C27_Witness ==
  /\ Prepared("prepare_test_code")
  /\ probe.arg.index = 2
  /\ probe.arg.code = <<"public", SP, "class", SP, "A", "A">>
  /\ probe.out[1].filename = "AA.java"

\* ----- the C# preamble
\* add_using_directives has been applied n times or more.
Decorated(n) == probe.fn = "add_using_directives" /\ Len(probe.out) >= n

\* The using directives of a text: its lines that, white space at both ends
\* apart, begin with "using" and a blank, in the order of the text.
Directives(text) == LinesWhere(SplitLines(text), TRUE)

\* How many times pat occurs in text.
Occurrences(text, pat) ==
  Cardinality({i \in 1 .. Len(text) - Len(pat) + 1 :
                 SubSeq(text, i, i + Len(pat) - 1) = pat})

\* C28: add_using_directives inserts "using System;" only if the code does
\* not contain it: code that contains it is returned unchanged, code that
\* does not gets it exactly once, applying the decoration twice gives the
\* text of applying it once, and the using directives the code had come out
\* in the same relative order (after the inserted one).
C28_UsingSystemOnlyIfAbsent ==
  /\ Decorated(1) =>
       /\ Contains(probe.arg, UsingSystem) => probe.out[1] = probe.arg
       /\ ~Contains(probe.arg, UsingSystem) =>
            /\ Occurrences(probe.out[1], UsingSystem) = 1
            /\ Directives(probe.out[1]) = <<UsingSystem>> \o Directives(probe.arg)
       /\ Len(probe.out[1]) >= Len(probe.arg)
  /\ Decorated(2) => probe.out[2] = probe.out[1]

C28_Witness ==
  /\ Decorated(2)
  /\ probe.arg = <<"using", SP, "B", ";", NL, "using", SP, "A", ";", NL>>
  /\ probe.out[1] = UsingSystem \o <<NL>> \o <<"using", SP, "B", ";", NL, "using", SP, "A", ";", NL, NL>>
  /\ probe.out[2] = probe.out[1]

\* ----- the layout of a run
\* The layout the adapter holds: its project_path, app_path and tests_path.
LayoutOf(a) ==
  [project_path |-> a.project_path, app_path |-> a.app_path, tests_path |-> a.tests_path]

\* Every write, every toolchain process and the report of the run so far
\* used the layout init_project returned to execute, which is the one the
\* adapter holds.
LayoutUsedThroughout ==
  /\ paths # NoPaths => paths = LayoutOf(adapter)
  /\ pc \notin {"init_project", "raised"} => paths # NoPaths
  /\ \A w \in 1 .. Len(writes) :
       writes[w].path =
         (IF writes[w].dir = "src" THEN adapter.app_path ELSE adapter.tests_path)
           \o "/" \o writes[w].name
  /\ \A p \in 1 .. Len(procs) :
       procs[p].cwd = paths.project_path /\ procs[p].cwd = adapter.project_path
  /\ report_file # Nothing => paths.project_path \in dirs

\* A step that assigns the layout, in the adapter or in execute.
LayoutAssigned == LayoutOf(adapter') # LayoutOf(adapter) \/ paths' # paths

\* C29: within one run init_project is called once, at the start, and never
\* again; the layout it returned is assigned by that call alone, and every
\* later write, the toolchain and the report use that layout.
C29_LayoutCreatedOnce ==
  /\ []LayoutUsedThroughout
  /\ [][/\ pc' # "init_project"
        /\ LayoutAssigned =>
             /\ pc = "init_project"
             /\ paths = NoPaths
             /\ LayoutOf(adapter) = NoPaths]_vars

C29_Witness ==
  /\ pc = "done"
  /\ report_file # Nothing
  /\ paths = LayoutOf(adapter)
  /\ paths.project_path = WorkDir \o "/java_project_" \o Stamp
  /\ \E w \in 1 .. Len(writes) : writes[w].dir = "src"
  /\ \E w \in 1 .. Len(writes) : writes[w].dir = "tests"
  /\ \E p \in 1 .. Len(procs) : procs[p].cmd = "java"

\* ----- a source file that cannot be written
\* The write of a source file has failed: an OSError is in flight after
\* init_project returned and before every snippet has its source file.
SourceWriteFailed ==
  /\ error = "OSError"
  /\ paths # NoPaths
  /\ Cardinality(WritesInto("src")) < Len(input_code.codes)

\* C30: a failure to write a source file aborts the run: the error reaches
\* the caller of execute, no generation call is issued and no task created
\* for any snippet, no test file is written, no toolchain process is started
\* and no report is built or written; nothing happens once the error has
\* reached the caller.
C30_SourceWriteFailureAborts ==
  /\ [](SourceWriteFailed =>
          /\ pc = "raised"
          /\ \A k \in Indices : calls[k] = 0 /\ tasks[k] = "none" /\ results[k] = Nothing
          /\ loop = "none"
          /\ test_codes = <<>>
          /\ tests_dir = {}
          /\ WritesInto("tests") = {}
          /\ procs = <<>>
          /\ test_results = Nothing
          /\ report_xml = Nothing
          /\ report_file = Nothing)
  /\ [][pc # "raised"]_vars

C30_Witness ==
  /\ SourceWriteFailed
  /\ pc = "raised"
  /\ Len(input_code.codes) = 3
  /\ Cardinality(WritesInto("src")) = 1
  /\ \E f \in app_dir : f.index = 1 /\ f.content = <<>>
  /\ \A k \in Indices : calls[k] = 0

\* ----- termination
\* execute has ended: the report is written, or an error has reached the
\* caller.
Terminated == pc \in {"done", "raised"}

\* C31: if every generation call returns or fails and every toolchain
\* process exits, execute terminates, for single and for batch input: it
\* eventually has written the report or raised to its caller, and then stays
\* so; the report is there exactly when it ended without an error.
C31_ExecuteTerminates ==
  /\ <>[]Terminated
  /\ [](pc = "done" => report_file # Nothing)
  /\ [](pc = "raised" => (error # "" /\ report_file = Nothing))

C31_Witness ==
  /\ pc = "raised"
  /\ input_code.kind = "list"
  /\ loop = "closed"
  /\ \E k \in Indices : tasks[k] = "cancelled"
  /\ \E k \in Indices : tasks[k] = "failed"
  /\ \E k \in Indices : tasks[k] = "done"

\* ----- a Java project without tests
\* C32: JavaAdapter.execute_tests returns return_code 0 only when at least
\* one test class was run and every test class run exited 0; a project whose
\* tests directory holds no test file is never reported as passed.
C32_PassedOnlyIfTestsRan ==
  language = "java" =>
    /\ (test_results # Nothing /\ test_results[1].return_code = 0) =>
         /\ \E p \in 1 .. Len(procs) : procs[p].cmd = "java"
         /\ \A p \in 1 .. Len(procs) : procs[p].cmd = "java" => procs[p].rc = 0
    /\ (JavaFiles(tests_dir) = {} /\ report_xml # Nothing) =>
         TextOf(report_xml[1], "status") # "passed"

\* ----- the C# preamble only adds lines
\* The lines without the one at position p.
WithoutLine(lines, p) == SubSeq(lines, 1, p - 1) \o SubSeq(lines, p + 1, Len(lines))

\* The lines of after are the lines of before, in their order, with a
\* "using System;" line put first and one blank line put somewhere after it.
OnlyAddsLines(before, after) ==
  LET inl == SplitLines(before)
      outl == SplitLines(after)
  IN /\ Len(outl) = Len(inl) + 2
     /\ outl[1] = UsingSystem
     /\ \E b \in 2 .. Len(outl) :
          outl[b] = <<>> /\ WithoutLine(WithoutLine(outl, b), 1) = inl

\* C33: the C# preamble decoration only adds lines: every line of the input
\* appears in the output, the original lines keep their relative order, and
\* removing the inserted "using System;" line and the inserted blank line
\* gives back the input; no line of the code is moved.
C33_DecorationOnlyAddsLines ==
  Decorated(1) =>
    IF Contains(probe.arg, UsingSystem)
    THEN probe.out[1] = probe.arg
    ELSE OnlyAddsLines(probe.arg, probe.out[1])

\* ----- execute on an empty list
\* execute was called with a list that holds no snippet.
EmptyList == input_code.kind = "list" /\ input_code.codes = <<>>

\* Nothing was generated, written or started.
NothingDone ==
  /\ DOMAIN calls = {}
  /\ DOMAIN tasks = {}
  /\ done_order = <<>>
  /\ test_codes = <<>>
  /\ writes = <<>>
  /\ app_dir = {}
  /\ tests_dir = {}
  /\ procs = <<>>
  /\ pending = {}

\* C34: for an empty input list execute issues no generation call, writes
\* no source file and no test file, and (init_project having returned) still
\* finishes with exactly one report; with JavaAdapter that report has
\* return_code 1 and status "failed" and no compiler or java process is
\* started.
C34_EmptyListStillReports ==
  /\ [](EmptyList => NothingDone)
  /\ [](EmptyList /\ pc = "done" =>
          /\ report_file # Nothing
          /\ TextOf(report_file[1], "return_code") = "1"
          /\ TextOf(report_file[1], "status") = "failed")
  /\ [][EmptyList /\ report_file' # report_file => report_file = Nothing]_vars
  /\ (EmptyList /\ InitProjectReturned) ~> (pc = "done")

C34_Witness ==
  /\ EmptyList
  /\ pc = "done"
  /\ loop = "closed"
  /\ NothingDone
  /\ test_results = Some([return_code |-> 1,
                          stdout |-> <<"No source files found in src directory">>])
  /\ TextOf(report_file[1], "status") = "failed"

====
